---- MODULE Spec2Model ----
(***************************************************************************)
(* A model of py-boy (kbernst30/py-boy): the MMU (src/src/mmu.py), the     *)
(* interrupt controller (src/src/interrupts.py), the PPU scanline machine  *)
(* (src/src/ppu.py) and the CPU interpreter (src/src/cpu.py).              *)
(*                                                                         *)
(* Python integers are unbounded, so registers and addresses are modelled  *)
(* as TLA+ integers and are masked exactly where the source masks them.    *)
(* The 64 KiB memory list is modelled on a window of representative cells  *)
(* (MemAddrs); Python's list indexing (negative indices count from the     *)
(* end, indices past the end raise IndexError) is modelled by PyIndex and  *)
(* IndexRaises.                                                            *)
(***************************************************************************)
EXTENDS Integers, Sequences, FiniteSets, TLC

VARIABLES
    memory,               \* Mmu.memory, restricted to MemAddrs
    enable_ram,           \* Mmu.enable_ram
    oam_access,           \* Mmu.oam_access
    vram_access,          \* Mmu.vram_access
    rom_bank,             \* Mmu.rom_bank
    mbc1,                 \* Mmu.mbc1
    number_of_rom_banks,  \* Mmu.number_of_rom_banks
    rom,                  \* the cartridge header loaded by Mmu.load_rom
    scanline_counter,     \* Ppu.scanline_counter
    fed,                  \* cycles fed to the PPU so far (scanline runs only)
    step_size,            \* the cycle count of each PPU step of a scanline run
    op,                   \* the last operation applied, with its arguments
    program_counter,      \* Cpu.program_counter
    stack_pointer,        \* Cpu.stack_pointer
    af, bc, de, hl,       \* Cpu.af .. Cpu.hl: RegisterPair objects [hi, lo]
    interrupts_enabled,   \* Cpu.interrupts_enabled
    will_enable_interrupts,   \* Cpu.will_enable_interrupts
    will_disable_interrupts,  \* Cpu.will_disable_interrupts
    halted,               \* Cpu.halted
    last_opcode,          \* Cpu.last_opcode: <<>> for None, else <<code>>
    raised,               \* an exception has left Cpu.execute (PyBoy.run exits)
    steps,                \* the number of CPU steps taken (CPU runs only)
    divider_counter,      \* TimerControl.divider_counter
    timer_counter,        \* TimerControl.timer_counter
    state                 \* Joypad.state: 1 for unpressed and 0 for pressed

mmuVars == <<memory, enable_ram, oam_access, vram_access, rom_bank>>
romVars == <<mbc1, number_of_rom_banks, rom>>
ppuVars == <<scanline_counter>>
runVars == <<fed, step_size>>
cpuVars == <<program_counter, stack_pointer, af, bc, de, hl, interrupts_enabled,
             will_enable_interrupts, will_disable_interrupts, halted,
             last_opcode, raised, steps>>
timerVars == <<divider_counter, timer_counter>>
joypadVars == <<state>>
vars == <<mmuVars, romVars, ppuVars, runVars, op, cpuVars, timerVars, joypadVars>>

(***************************************************************************)
(* Program constants                                                       *)
(***************************************************************************)
MEMORY_SIZE == 65536
ROM_BANK_SIZE == 16384
MAX_CYCLES_PER_FRAME == 70224
CLOCK_SPEED == 4194304
CYCLES_PER_DIVIDER_INCREMENT == 256
CYCLES_PER_SCANLINE == 456
MAX_SCANLINE_VALUE == 153
SCREEN_HEIGHT == 144
INTERRUPT_FLAG_ADDR == 65295          \* 0xFF0F
INTERRUPT_ENABLE_ADDR == 65535        \* 0xFFFF
DIVIDER_REGISTER_ADDR == 65284        \* 0xFF04
TIMER_ADDR == 65285                   \* 0xFF05
TIMER_MODULATOR_ADDR == 65286         \* 0xFF06
TIMER_CONTROL_ADDR == 65287           \* 0xFF07
LCD_CONTROL_ADDR == 65344             \* 0xFF40
LCD_STATUS_ADDR == 65345              \* 0xFF41
CURRENT_SCANLINE_ADDR == 65348        \* 0xFF44
CURRENT_SCANLINE_COMPARE_ADDR == 65349 \* 0xFF45
ROM_BANKING_MODE_ADDR == 327          \* 0x147
RAM_BANK_COUNT_ADDR == 328            \* 0x148

PROGRAM_COUNTER_INIT == 256           \* 0x100
STACK_POINTER_INIT == 65534           \* 0xFFFE

\* utils.Interrupt
V_BLANK == 0
LCD_STAT == 1
TIMER == 2
SERIAL == 3
JOYPAD == 4

\* cpu.Flags: the bit of F each flag is kept in
ZERO == 7
SUBTRACTION == 6
HALF_CARRY == 5
CARRY == 4

\* utils.LcdMode
MODE_H_BLANK == 0
MODE_V_BLANK == 1
MODE_SPRITE_SEARCH == 2
MODE_LCD_TRANSFER == 3

(***************************************************************************)
(* Bit utilities (src/src/utils.py) and Python's integer operators         *)
(***************************************************************************)
Pow2(n) == IF n = 0 THEN 1 ELSE IF n = 1 THEN 2 ELSE IF n = 2 THEN 4
           ELSE IF n = 3 THEN 8 ELSE IF n = 4 THEN 16 ELSE IF n = 5 THEN 32
           ELSE IF n = 6 THEN 64 ELSE IF n = 7 THEN 128 ELSE 256

RECURSIVE AndNat(_, _)
AndNat(a, b) == IF a = 0 \/ b = 0 THEN 0
                ELSE (a % 2) * (b % 2) + 2 * AndNat(a \div 2, b \div 2)

\* a & b for a mask b in 0..0xFFFF; a may be negative (two's complement).
BitAnd(a, b) == AndNat(a % 65536, b)

RECURSIVE OrNat(_, _)
OrNat(a, b) == IF a = 0 THEN b ELSE IF b = 0 THEN a
               ELSE (IF a % 2 = 1 \/ b % 2 = 1 THEN 1 ELSE 0)
                    + 2 * OrNat(a \div 2, b \div 2)

\* a | b for non-negative a and b.
BitOr(a, b) == OrNat(a, b)

is_bit_set(data, position) == BitAnd(data, Pow2(position)) > 0

get_bit_val(data, position) == IF BitAnd(data, Pow2(position)) > 0 THEN 1 ELSE 0

set_bit(data, position) == BitOr(data, Pow2(position))

bit_negate(data) == 256 - 1 - data

reset_bit(data, position) == BitAnd(data, bit_negate(Pow2(position)))

(***************************************************************************)
(* Cartridge (src/src/rom.py).  A cartridge is given by its header: the    *)
(* cartridge type byte and the bank count code; every other byte of the    *)
(* image is a fixed pattern that differs from bank to bank.                *)
(***************************************************************************)
get_number_of_banks(r) ==
    IF r.banks_code = 0 THEN 2
    ELSE IF r.banks_code = 1 THEN 4
    ELSE IF r.banks_code = 2 THEN 8
    ELSE IF r.banks_code = 3 THEN 16
    ELSE IF r.banks_code = 4 THEN 32
    ELSE 2

get_cartridge_type(r) == r.cartridge_type

\* len(rom.data): the image holds the banks its header announces.
RomLen(r) == get_number_of_banks(r) * ROM_BANK_SIZE

\* rom.data[offset]
RomData(r, offset) ==
    IF offset = ROM_BANKING_MODE_ADDR THEN r.cartridge_type
    ELSE IF offset = RAM_BANK_COUNT_ADDR THEN r.banks_code
    ELSE (offset + 7 * (offset \div ROM_BANK_SIZE)) % 256

(***************************************************************************)
(* MMU (src/src/mmu.py)                                                    *)
(***************************************************************************)
\* The cells of Mmu.memory the model keeps.
MemAddrs == { 0, 8191, 8192, 16383, 16384, 24575, 24576, 32767,
              INTERRUPT_FLAG_ADDR, LCD_CONTROL_ADDR, LCD_STATUS_ADDR,
              CURRENT_SCANLINE_ADDR, CURRENT_SCANLINE_COMPARE_ADDR,
              DIVIDER_REGISTER_ADDR, TIMER_ADDR, TIMER_MODULATOR_ADDR,
              TIMER_CONTROL_ADDR, 32768, 40959, 40960, 49152, 49153, 57344,
              65023, 65024, 65183, 65184, 65279,
              65532, 65533, 65534, INTERRUPT_ENABLE_ADDR }

\* Python list indexing: a negative index counts from the end of the list.
PyIndex(addr) == IF addr < 0 THEN addr + MEMORY_SIZE ELSE addr

\* memory[addr] raises IndexError
IndexRaises(addr) == addr >= MEMORY_SIZE \/ addr < 0 - MEMORY_SIZE

\* The access stays inside the modelled window of memory.
Tracked(addr) == IndexRaises(addr) \/ PyIndex(addr) \in MemAddrs

\* The MMU object as a value, so that the writes of one handler compose.
Mmu == [memory |-> memory, enable_ram |-> enable_ram, oam_access |-> oam_access,
        vram_access |-> vram_access, rom_bank |-> rom_bank]

\* Mmu.reset: the register values installed over the zeroed memory
ResetValue(addr) == IF addr = LCD_CONTROL_ADDR THEN 145 ELSE 0

\* Mmu.__init__ followed by Mmu.load_rom(r)
LoadedMemory(r) ==
    [a \in MemAddrs |-> IF a < 32768 /\ a < RomLen(r) THEN RomData(r, a)
                        ELSE ResetValue(a)]

is_restricted_oam(m, addr) == addr >= 65024 /\ addr <= 65183 /\ ~m.oam_access

\* A closed VRAM gate that also covers 0xA000
is_restricted_vram_wide(m, addr) == addr >= 32768 /\ addr <= 40960 /\ ~m.vram_access

is_restricted_vram(m, addr) == addr >= 32768 /\ addr <= 40959 /\ ~m.vram_access

resolved_addr(m, addr) == (addr - 16384) + (m.rom_bank * 16384)

\* Mmu.read_byte raises IndexError
read_raises(m, addr) ==
    /\ ~(is_restricted_oam(m, addr) \/ is_restricted_vram(m, addr))
    /\ IF addr >= 16384 /\ addr < 32768
       THEN resolved_addr(m, addr) >= RomLen(rom)
       ELSE IndexRaises(addr)

\* Mmu.read_byte, where it returns
read_byte(m, addr) ==
    IF is_restricted_oam(m, addr) \/ is_restricted_vram(m, addr) THEN 255
    ELSE IF addr >= 16384 /\ addr < 32768 THEN RomData(rom, resolved_addr(m, addr))
    ELSE m.memory[PyIndex(addr)]

\* Mmu._handle_banking
handle_banking(m, addr, data) ==
    IF addr < 8192
    THEN [m EXCEPT !.enable_ram = (BitAnd(data, 15) = 10)]
    ELSE IF addr >= 8192 /\ addr < 16384
    THEN IF mbc1 THEN [m EXCEPT !.rom_bank = BitAnd(data, 31)] ELSE m
    ELSE m

\* Mmu.write_byte raises IndexError
write_raises(m, addr) ==
    /\ ~(is_restricted_oam(m, addr) \/ is_restricted_vram(m, addr))
    /\ addr >= 32768
    /\ IndexRaises(addr)

\* write_byte without the cartridge-range case: the store reaches memory.
write_byte_stores_rom(m, addr, data) ==
    IF is_restricted_oam(m, addr) \/ is_restricted_vram(m, addr) THEN m
    ELSE IF addr >= 57344 /\ addr < 65024 THEN m
    ELSE IF addr >= 65184 /\ addr < 65280 THEN m
    ELSE IF addr = DIVIDER_REGISTER_ADDR \/ addr = CURRENT_SCANLINE_ADDR
    THEN [m EXCEPT !.memory[addr] = 0]
    ELSE [m EXCEPT !.memory[addr] = BitAnd(data, 255)]

\* write_byte without the DIV/LY case: the data byte is stored there.
write_byte_stores_div(m, addr, data) ==
    IF is_restricted_oam(m, addr) \/ is_restricted_vram(m, addr) THEN m
    ELSE IF addr < 32768 THEN handle_banking(m, addr, data)
    ELSE IF addr >= 57344 /\ addr < 65024 THEN m
    ELSE IF addr >= 65184 /\ addr < 65280 THEN m
    ELSE [m EXCEPT !.memory[addr] = BitAnd(data, 255)]

\* write_byte with an ECHO store mirrored into work RAM, 0x2000 below.
write_byte_mirrors_echo(m, addr, data) ==
    IF is_restricted_oam(m, addr) \/ is_restricted_vram(m, addr) THEN m
    ELSE IF addr < 32768 THEN handle_banking(m, addr, data)
    ELSE IF addr >= 57344 /\ addr < 65024
    THEN [m EXCEPT !.memory[addr - 8192] = BitAnd(data, 255)]
    ELSE IF addr >= 65184 /\ addr < 65280 THEN m
    ELSE IF addr = DIVIDER_REGISTER_ADDR \/ addr = CURRENT_SCANLINE_ADDR
    THEN [m EXCEPT !.memory[addr] = 0]
    ELSE [m EXCEPT !.memory[addr] = BitAnd(data, 255)]

\* Mmu.write_byte, where it returns
write_byte(m, addr, data) ==
    IF is_restricted_oam(m, addr) \/ is_restricted_vram(m, addr) THEN m
    ELSE IF addr < 32768 THEN handle_banking(m, addr, data)
    ELSE IF addr >= 57344 /\ addr < 65024 THEN m
    ELSE IF addr >= 65184 /\ addr < 65280 THEN m
    ELSE IF addr = DIVIDER_REGISTER_ADDR \/ addr = CURRENT_SCANLINE_ADDR
    THEN [m EXCEPT !.memory[addr] = 0]
    ELSE [m EXCEPT !.memory[addr] = BitAnd(data, 255)]

\* Mmu.increment_divider_register
increment_divider_register(m) ==
    [m EXCEPT !.memory[DIVIDER_REGISTER_ADDR] =
                  BitAnd(m.memory[DIVIDER_REGISTER_ADDR] + 1, 255)]

\* Mmu.increment_timer_register
increment_timer_register(m) ==
    [m EXCEPT !.memory[TIMER_ADDR] = BitAnd(m.memory[TIMER_ADDR] + 1, 255)]

\* Mmu.update_scanline
update_scanline(m) ==
    [m EXCEPT !.memory[CURRENT_SCANLINE_ADDR] = m.memory[CURRENT_SCANLINE_ADDR] + 1]

\* Mmu.reset_scanline
reset_scanline(m) == [m EXCEPT !.memory[CURRENT_SCANLINE_ADDR] = 0]

restrict_oam_access(m) == [m EXCEPT !.oam_access = FALSE]

open_oam_access(m) == [m EXCEPT !.oam_access = TRUE]

restrict_vram_access(m) == [m EXCEPT !.vram_access = FALSE]

open_vram_access(m) == [m EXCEPT !.vram_access = TRUE]

\* The MMU object takes the value m.
SetMmu(m) ==
    /\ memory' = m.memory
    /\ enable_ram' = m.enable_ram
    /\ oam_access' = m.oam_access
    /\ vram_access' = m.vram_access
    /\ rom_bank' = m.rom_bank

(***************************************************************************)
(* Interrupt controller (src/src/interrupts.py)                            *)
(***************************************************************************)
request_interrupt(m, interrupt) ==
    write_byte(m, INTERRUPT_FLAG_ADDR,
               set_bit(read_byte(m, INTERRUPT_FLAG_ADDR), interrupt))

\* InterruptControl.is_interrupt_enabled
is_interrupt_enabled(m, interrupt) ==
    is_bit_set(read_byte(m, INTERRUPT_ENABLE_ADDR), interrupt)

is_interrupt_requested(m, interrupt) ==
    is_bit_set(read_byte(m, INTERRUPT_FLAG_ADDR), interrupt)

\* InterruptControl.get_servicable_interrupt: the first source, in the order
\* of the Interrupt enumeration, that is enabled and requested; <<>> is None.
RECURSIVE first_servicable(_, _)
first_servicable(m, interrupt) ==
    IF interrupt > JOYPAD THEN <<>>
    ELSE IF is_interrupt_enabled(m, interrupt)
            /\ is_interrupt_requested(m, interrupt)
    THEN <<interrupt>>
    ELSE first_servicable(m, interrupt + 1)

\* get_servicable_interrupt with the V-Blank source left out of the search
get_servicable_interrupt_after_vblank(m) == first_servicable(m, LCD_STAT)

get_servicable_interrupt(m) == first_servicable(m, V_BLANK)


(***************************************************************************)
(* Timers (src/src/timers.py).  A TimerControl is the record               *)
(* [mmu, divider_counter, timer_counter].                                  *)
(***************************************************************************)
\* TimerControl.is_timer_enabled
is_timer_enabled(m) == is_bit_set(read_byte(m, TIMER_CONTROL_ADDR), 2)

\* TimerControl.get_timer_frequency
get_timer_frequency(m) ==
    LET freq_compare_val == BitAnd(read_byte(m, TIMER_CONTROL_ADDR), 3)
    IN IF freq_compare_val = 0 THEN CLOCK_SPEED \div 4096
       ELSE IF freq_compare_val = 1 THEN CLOCK_SPEED \div 262144
       ELSE IF freq_compare_val = 2 THEN CLOCK_SPEED \div 65536
       ELSE CLOCK_SPEED \div 16384

\* TimerControl.update_divider_register
update_divider_register(t, cycles) ==
    IF t.divider_counter - cycles <= 0
    THEN [t EXCEPT !.divider_counter = CYCLES_PER_DIVIDER_INCREMENT,
                   !.mmu = increment_divider_register(t.mmu)]
    ELSE [t EXCEPT !.divider_counter = t.divider_counter - cycles]

\* The overflow of TIMA without the reload from TMA
timer_overflow_without_reload(m) == request_interrupt(m, TIMER)

\* The overflow branch of TimerControl.update_timers: TIMA has wrapped to 0
timer_overflow(m) ==
    LET m1 == request_interrupt(m, TIMER)
    IN write_byte(m1, TIMER_ADDR, read_byte(m1, TIMER_MODULATOR_ADDR))

\* TimerControl.update_timers
update_timers(t, cycles) ==
    LET t1 == update_divider_register(t, cycles)
        freq == get_timer_frequency(t1.mmu)
        counter == t1.timer_counter + cycles
        m1 == increment_timer_register(t1.mmu)
    IN IF ~is_timer_enabled(t1.mmu) THEN t1
       ELSE IF counter < freq THEN [t1 EXCEPT !.timer_counter = counter]
       ELSE [t1 EXCEPT !.timer_counter = counter - freq,
                       !.mmu = IF read_byte(m1, TIMER_ADDR) = 0
                               THEN timer_overflow(m1) ELSE m1]

(***************************************************************************)
(* PPU (src/src/ppu.py)                                                    *)
(***************************************************************************)
is_lcd_enabled(m) == is_bit_set(read_byte(m, LCD_CONTROL_ADDR), 7)

\* LcdStatus.get_mode, as the number of the mode it returns
get_mode(m) ==
    (get_bit_val(read_byte(m, LCD_STATUS_ADDR), 1) * 2)
        + get_bit_val(read_byte(m, LCD_STATUS_ADDR), 0)

\* LcdStatus.set_mode
set_mode(m, mode) ==
    write_byte(m, LCD_STATUS_ADDR, BitOr(read_byte(m, LCD_STATUS_ADDR), mode))

is_hblank_stat_interrupt_enabled(m) == is_bit_set(read_byte(m, LCD_STATUS_ADDR), 3)

is_vblank_stat_interrupt_enabled(m) == is_bit_set(read_byte(m, LCD_STATUS_ADDR), 4)

is_oam_stat_interrupt_enabled(m) == is_bit_set(read_byte(m, LCD_STATUS_ADDR), 5)

\* The mode Ppu.update_lcd_status hands to set_mode for a given LY and budget.
lcd_mode(m, counter) ==
    IF ~is_lcd_enabled(m) THEN MODE_V_BLANK
    ELSE IF read_byte(m, CURRENT_SCANLINE_ADDR) >= 144 THEN MODE_V_BLANK
    ELSE IF counter >= MAX_CYCLES_PER_FRAME - 80 THEN MODE_SPRITE_SEARCH
    ELSE IF counter >= MAX_CYCLES_PER_FRAME - 80 - 172 THEN MODE_LCD_TRANSFER
    ELSE MODE_H_BLANK

\* A coincidence update that sets STAT bit 2 on a match and never clears it
update_coincidence_flag_set_only(m, val) ==
    write_byte(m, LCD_STATUS_ADDR,
               IF val THEN set_bit(read_byte(m, LCD_STATUS_ADDR), 2)
               ELSE read_byte(m, LCD_STATUS_ADDR))

\* LcdStatus.update_coincidence_flag
update_coincidence_flag(m, val) ==
    write_byte(m, LCD_STATUS_ADDR,
               IF val THEN set_bit(read_byte(m, LCD_STATUS_ADDR), 2)
               ELSE reset_bit(read_byte(m, LCD_STATUS_ADDR), 2))

\* Ppu.update_lcd_status: the MMU and the scanline counter it leaves.
update_lcd_status(m, counter) ==
    LET scanline == read_byte(m, CURRENT_SCANLINE_ADDR)
        scanline_compare == read_byte(m, CURRENT_SCANLINE_COMPARE_ADDR)
    IN
    IF ~is_lcd_enabled(m)
    THEN [mmu |-> open_vram_access(open_oam_access(
                      set_mode(reset_scanline(m), MODE_V_BLANK))),
          counter |-> CYCLES_PER_SCANLINE]
    ELSE
    LET current_mode == get_mode(m)
        m1 == IF scanline >= 144
              THEN open_vram_access(open_oam_access(set_mode(m, MODE_V_BLANK)))
              ELSE IF counter >= MAX_CYCLES_PER_FRAME - 80
              THEN open_vram_access(restrict_oam_access(
                       set_mode(m, MODE_SPRITE_SEARCH)))
              ELSE IF counter >= MAX_CYCLES_PER_FRAME - 80 - 172
              THEN restrict_vram_access(restrict_oam_access(
                       set_mode(m, MODE_LCD_TRANSFER)))
              ELSE open_vram_access(open_oam_access(set_mode(m, MODE_H_BLANK)))
        should_request_stat_interrupt ==
              IF scanline >= 144 THEN is_vblank_stat_interrupt_enabled(m1)
              ELSE IF counter >= MAX_CYCLES_PER_FRAME - 80
              THEN is_oam_stat_interrupt_enabled(m1)
              ELSE IF counter >= MAX_CYCLES_PER_FRAME - 80 - 172 THEN FALSE
              ELSE is_hblank_stat_interrupt_enabled(m1)
        m2 == IF current_mode # get_mode(m1) /\ should_request_stat_interrupt
              THEN request_interrupt(m1, LCD_STAT)
              ELSE m1
        m3 == IF scanline = scanline_compare
              THEN request_interrupt(update_coincidence_flag(m2, TRUE), LCD_STAT)
              ELSE update_coincidence_flag(m2, FALSE)
    IN [mmu |-> m3, counter |-> counter]

\* A scanline handling that requests V_BLANK on every scanline from 144 on.
advance_scanline_request_each_line(m) ==
    LET scanline == read_byte(m, CURRENT_SCANLINE_ADDR)
        m1 == update_scanline(m)
    IN IF scanline > MAX_SCANLINE_VALUE THEN reset_scanline(m1)
       ELSE IF scanline >= 144 THEN request_interrupt(m1, V_BLANK)
       ELSE m1

\* The scanline handling at the end of Ppu.update_graphics, once the counter
\* has run out.  draw_scanline writes only Ppu.screen, which is no part of the
\* MMU or of the scanline state.
advance_scanline(m) ==
    LET scanline == read_byte(m, CURRENT_SCANLINE_ADDR)
        m1 == update_scanline(m)
    IN IF scanline = 144 THEN request_interrupt(m1, V_BLANK)
       ELSE IF scanline > MAX_SCANLINE_VALUE THEN reset_scanline(m1)
       ELSE m1

\* Ppu.update_graphics(cycles): the MMU and the scanline counter it leaves.
update_graphics(m, counter, cycles) ==
    LET s == update_lcd_status(m, counter)
        c1 == IF is_lcd_enabled(s.mmu) THEN s.counter - cycles ELSE s.counter
    IN IF c1 <= 0
       THEN [mmu |-> advance_scanline(s.mmu), counter |-> CYCLES_PER_SCANLINE]
       ELSE [mmu |-> s.mmu, counter |-> c1]

(***************************************************************************)
(* The state after construction: Mmu(), Ppu(mmu, interrupts) and           *)
(* Mmu.load_rom of a cartridge.                                            *)
(***************************************************************************)
Cartridges == [cartridge_type : {0, 1}, banks_code : {0, 1}]

InitMmu ==
    /\ rom \in Cartridges
    /\ memory = LoadedMemory(rom)
    /\ enable_ram = FALSE
    /\ oam_access = TRUE
    /\ vram_access = TRUE
    /\ rom_bank = 1
    /\ mbc1 = (get_cartridge_type(rom) \in {1, 2, 3})
    /\ number_of_rom_banks = get_number_of_banks(rom)

InitPpu == scanline_counter = CYCLES_PER_SCANLINE

\* The buttons, by their values in the enum Button: RIGHT, LEFT, DOWN, UP, A,
\* B, START, SELECT
Buttons == 0..7

\* Joypad()
InitJoypad == state = [button \in Buttons |-> 1]

\* TimerControl(mmu, interrupts)
InitTimers ==
    /\ divider_counter = CYCLES_PER_DIVIDER_INCREMENT
    /\ timer_counter = 0

\* RegisterPair.value (setter): the halves a pair holds after pair.value = v
set_value(v) == [hi |-> v \div 256, lo |-> BitAnd(v, 255)]

\* Cpu(mmu) followed by Cpu.reset(), as PyBoy.load_game does
InitCpu ==
    /\ program_counter = PROGRAM_COUNTER_INIT
    /\ stack_pointer = STACK_POINTER_INIT
    /\ af = set_value(432)
    /\ bc = set_value(19)
    /\ de = set_value(216)
    /\ hl = set_value(333)
    /\ interrupts_enabled = TRUE
    /\ will_enable_interrupts = FALSE
    /\ will_disable_interrupts = FALSE
    /\ halted = FALSE
    /\ last_opcode = <<>>
    /\ raised = FALSE
    /\ steps = 0

(***************************************************************************)
(* The PPU stepped by instruction cycle counts, interleaved with the CPU's *)
(* stores to LY and LCDC.                                                  *)
(***************************************************************************)
\* The cycle counts of the opcode table (src/src/ops.py).
InstructionCycles == {4, 8, 12, 16, 20, 24}

\* The values the modelled program stores to the PPU registers:
\* LCDC with the LCD off (0x11) and on (0x91).
PpuStoreData == {17, 145}

PpuStep ==
    /\ \E cycles \in InstructionCycles :
         LET s == update_graphics(Mmu, scanline_counter, cycles)
         IN SetMmu(s.mmu) /\ scanline_counter' = s.counter
    /\ op' = <<"update_graphics">>
    /\ UNCHANGED <<timerVars, romVars, joypadVars, runVars, cpuVars>>

PpuStore ==
    /\ \E addr \in {CURRENT_SCANLINE_ADDR, LCD_CONTROL_ADDR}, data \in PpuStoreData :
         /\ SetMmu(write_byte(Mmu, addr, data))
         /\ op' = <<"write_byte", addr>>
    /\ UNCHANGED <<timerVars, romVars, joypadVars, ppuVars, runVars, cpuVars>>

InitPpuSpec ==
    /\ InitMmu
    /\ rom = [cartridge_type |-> 0, banks_code |-> 0]
    /\ InitPpu
    /\ InitCpu
    /\ InitTimers
    /\ InitJoypad
    /\ fed = 0
    /\ step_size = 0
    /\ op = <<"init">>

SpecPpu == InitPpuSpec /\ [][PpuStep \/ PpuStore]_vars

\* C1: at the end of every PPU step and CPU store, LY (0xFF44) is in 0..153.
C1_LyInRange == memory[CURRENT_SCANLINE_ADDR] \in 0..MAX_SCANLINE_VALUE

\* C2: with the LCD enabled, a PPU step that advances LY from 143 to 144
\* leaves IF bit 0 (VBlank) set.
C2_VBlankRequestedAt144 ==
    [][(/\ is_lcd_enabled(Mmu)
        /\ memory[CURRENT_SCANLINE_ADDR] = SCREEN_HEIGHT - 1
        /\ memory'[CURRENT_SCANLINE_ADDR] = SCREEN_HEIGHT)
       => is_bit_set(memory'[INTERRUPT_FLAG_ADDR], V_BLANK)]_vars

\* C21: with the LCD enabled, after each PPU step the MMU access gates match
\* the scanline budget the step observed: with LY < 144, a budget in 376..456
\* gives OAM restricted and VRAM open, a budget in 204..375 gives both
\* restricted, a budget below 204 gives both open; with LY >= 144 both are open.
C21_GatesMatchBudget ==
    [][(op'[1] = "update_graphics" /\ is_lcd_enabled(Mmu)) =>
        LET budget == scanline_counter
        IN IF memory[CURRENT_SCANLINE_ADDR] >= SCREEN_HEIGHT
           THEN oam_access' /\ vram_access'
           ELSE IF budget >= 376 THEN ~oam_access' /\ vram_access'
           ELSE IF budget >= 204 THEN ~oam_access' /\ ~vram_access'
           ELSE oam_access' /\ vram_access']_vars

\* C26: after every PPU step STAT bits 1-0 encode exactly the mode the step
\* computed from LCDC, LY and the budget (so they stop reading 1 once LY is a
\* visible line again), and the step leaves STAT bits 3-7 as they were.
C26_StatEncodesMode ==
    [][op'[1] = "update_graphics" =>
        /\ memory'[LCD_STATUS_ADDR] % 4 = lcd_mode(Mmu, scanline_counter)
        /\ memory'[LCD_STATUS_ADDR] \div 8 = memory[LCD_STATUS_ADDR] \div 8]_vars

(***************************************************************************)
(* A scanline run: from the post-reset state (LY = 0, a full budget of     *)
(* 456, LCD on) the PPU is fed steps of one fixed size that divides 456.   *)
(***************************************************************************)
\* The number of 154-scanline frames a scanline run is followed for.
ScanFrames == 2

ScanStep ==
    /\ fed < ScanFrames * (MAX_SCANLINE_VALUE + 1) * CYCLES_PER_SCANLINE
    /\ LET s == update_graphics(Mmu, scanline_counter, step_size)
       IN SetMmu(s.mmu) /\ scanline_counter' = s.counter
    /\ fed' = fed + step_size
    /\ op' = <<"update_graphics">>
    /\ UNCHANGED <<timerVars, romVars, joypadVars, step_size, cpuVars>>

InitScan ==
    /\ InitMmu
    /\ rom = [cartridge_type |-> 0, banks_code |-> 0]
    /\ InitPpu
    /\ InitCpu
    /\ InitTimers
    /\ InitJoypad
    /\ fed = 0
    /\ step_size \in {c \in InstructionCycles : CYCLES_PER_SCANLINE % c = 0}
    /\ op = <<"init">>

SpecScan == InitScan /\ [][ScanStep]_vars

\* C3: fed in steps that divide 456, LY has advanced by one after each 456
\* cycles, and after 70,224 cycles (154 scanlines) LY is 0 again.
C3_ScanlinePeriod ==
    (fed % CYCLES_PER_SCANLINE = 0 /\ fed <= MAX_CYCLES_PER_FRAME)
        => memory[CURRENT_SCANLINE_ADDR]
               = (fed \div CYCLES_PER_SCANLINE) % (MAX_SCANLINE_VALUE + 1)

(***************************************************************************)
(* The MMU under the CPU's stores: write_byte with addresses in the        *)
(* cartridge range 0x0000-0x7FFF (and one high-RAM cell), for ROM-only and *)
(* MBC1 cartridges of 2 and 4 banks.                                       *)
(***************************************************************************)
\* The addresses of the cartridge range the model reads and writes: the
\* first and last address of each 8 KiB control region.
RomAddrs == {a \in MemAddrs : a < 32768}

\* The first and the last address of the unusable range 0xFEA0-0xFEFF.
UnusableAddrs == {65184, 65279}

\* The addresses written: the cartridge range, the unusable range and the
\* high-RAM cell 0xFFFE.
MmuWriteAddrs == RomAddrs \cup UnusableAddrs \cup {65534}

\* The data bytes written: bank numbers 0..3, the RAM-enable nibble 0x0A,
\* the largest 5-bit bank 0x1F, and 0x20 and 0x21 whose low 5 bits are 0 and 1.
MmuWriteData == {0, 1, 2, 3, 10, 31, 32, 33}

MmuWrite ==
    /\ \E addr \in MmuWriteAddrs, data \in MmuWriteData :
         /\ SetMmu(write_byte(Mmu, addr, data))
         /\ op' = <<"write_byte", addr, data>>
    /\ UNCHANGED <<timerVars, romVars, joypadVars, ppuVars, runVars, cpuVars>>

InitMmuSpec ==
    /\ InitMmu
    /\ InitPpu
    /\ InitCpu
    /\ InitTimers
    /\ InitJoypad
    /\ fed = 0
    /\ step_size = 0
    /\ op = <<"init">>

SpecMmu == InitMmuSpec /\ [][MmuWrite]_vars

\* What read_byte(addr) does: the byte it returns, or that it raises.
ReadOutcome(m, addr) ==
    IF read_raises(m, addr) THEN [raises |-> TRUE, value |-> 0]
    ELSE [raises |-> FALSE, value |-> read_byte(m, addr)]

\* C8: for an MBC1 cartridge the ROM bank serving 0x4000-0x7FFF is never 0.
C8_RomBankNeverZero == mbc1 => rom_bank # 0

\* C9: for an MBC1 cartridge with N banks the selected bank is below N, and
\* no read of 0x4000-0x7FFF raises an error.
C9_RomBankInCartridge ==
    mbc1 => /\ rom_bank < number_of_rom_banks
            /\ \A r \in RomAddrs : ~read_raises(Mmu, r)

\* C11: in every state, before and after any writes (writes into the range
\* included), read_byte of an address in 0xFEA0-0xFEFF returns 0xFF.
C11_UnusableReadsFF ==
    \A a \in UnusableAddrs : ~read_raises(Mmu, a) /\ read_byte(Mmu, a) = 255

\* The step is write_byte(w, data) with w in 0x0000-0x7FFF.
IsRomWrite(o) == o[1] = "write_byte" /\ o[2] < 32768

Cpu == [program_counter |-> program_counter, stack_pointer |-> stack_pointer,
        af |-> af, bc |-> bc, de |-> de, hl |-> hl,
        interrupts_enabled |-> interrupts_enabled,
        will_enable_interrupts |-> will_enable_interrupts,
        will_disable_interrupts |-> will_disable_interrupts,
        halted |-> halted, last_opcode |-> last_opcode, raised |-> raised,
        mmu |-> Mmu]

SetCpu(s) ==
    /\ program_counter' = s.program_counter
    /\ stack_pointer' = s.stack_pointer
    /\ af' = s.af
    /\ bc' = s.bc
    /\ de' = s.de
    /\ hl' = s.hl
    /\ interrupts_enabled' = s.interrupts_enabled
    /\ will_enable_interrupts' = s.will_enable_interrupts
    /\ will_disable_interrupts' = s.will_disable_interrupts
    /\ halted' = s.halted
    /\ last_opcode' = s.last_opcode
    /\ raised' = s.raised
    /\ SetMmu(s.mmu)

\* An exception propagates out of the handler.
Raise(s) == [s EXCEPT !.raised = TRUE]

\* RegisterPair.value (getter): ((hi << 8) | lo) & 0xFFFF
value(p) == OrNat((p.hi * 256) % 65536, p.lo % 65536)

\* The cell is a RAM or register cell of the window of memory the model keeps.
InWindow(addr) ==
    ~IndexRaises(addr) /\ PyIndex(addr) >= 32768 /\ PyIndex(addr) \in MemAddrs

\* Cpu._read_memory, where it returns.  A cell outside the window (cartridge
\* ROM, which holds the program, or RAM the model does not keep) holds the
\* byte b, an input of the step.
read_memory(s, addr, b) ==
    IF \/ InWindow(addr)
       \/ is_restricted_oam(s.mmu, addr)
       \/ is_restricted_vram(s.mmu, addr)
    THEN read_byte(s.mmu, addr)
    ELSE b

\* Cpu._write_memory.  A store to RAM outside the window is not kept.
write_memory(s, addr, data) ==
    IF write_raises(s.mmu, addr) THEN Raise(s)
    ELSE IF addr >= 32768 /\ addr \notin MemAddrs THEN s
    ELSE [s EXCEPT !.mmu = write_byte(s.mmu, addr, data)]

\* Cpu._get_next_byte: the state it leaves and the byte it returns
get_next_byte(s, b) ==
    IF read_raises(s.mmu, s.program_counter) THEN [s |-> Raise(s), v |-> 0]
    ELSE [s |-> [s EXCEPT !.program_counter = s.program_counter + 1],
          v |-> BitAnd(read_memory(s, s.program_counter, b), 255)]

\* Cpu._get_next_byte_signed
get_next_byte_signed(s, b) ==
    LET r == get_next_byte(s, b)
    IN [s |-> r.s, v |-> IF r.v > 127 THEN r.v - 256 ELSE r.v]

\* Cpu._get_next_word
get_next_word(s, b1, b2) ==
    LET first == get_next_byte(s, b1)
        second == get_next_byte(first.s, b2)
    IN IF first.s.raised THEN first
       ELSE [s |-> second.s,
             v |-> BitAnd(BitOr(second.v * 256, first.v), 65535)]

is_zero_flag_set(s) == get_bit_val(s.af.lo, ZERO) = 1

is_carry_flag_set(s) == get_bit_val(s.af.lo, CARRY) = 1

update_zero_flag(s, val) ==
    [s EXCEPT !.af.lo = IF val THEN set_bit(s.af.lo, ZERO)
                        ELSE reset_bit(s.af.lo, ZERO)]

update_sub_flag(s, val) ==
    [s EXCEPT !.af.lo = IF val THEN set_bit(s.af.lo, SUBTRACTION)
                        ELSE reset_bit(s.af.lo, SUBTRACTION)]

update_half_carry_flag(s, val) ==
    [s EXCEPT !.af.lo = IF val THEN set_bit(s.af.lo, HALF_CARRY)
                        ELSE reset_bit(s.af.lo, HALF_CARRY)]

update_carry_flag(s, val) ==
    [s EXCEPT !.af.lo = IF val THEN set_bit(s.af.lo, CARRY)
                        ELSE reset_bit(s.af.lo, CARRY)]

\* Cpu._push_byte_to_stack
push_byte_to_stack(s, byte) ==
    LET s1 == [s EXCEPT !.stack_pointer = s.stack_pointer - 1]
    IN write_memory(s1, s1.stack_pointer, byte)

\* Cpu._pop_byte_from_stack: the state it leaves and the byte it returns
pop_byte_from_stack(s, b) ==
    IF read_raises(s.mmu, s.stack_pointer) THEN [s |-> Raise(s), v |-> 0]
    ELSE [s |-> [s EXCEPT !.stack_pointer = s.stack_pointer + 1],
          v |-> read_memory(s, s.stack_pointer, b)]

\* _push_word_to_stack with the low byte pushed first
push_word_to_stack_low_first(s, word) ==
    LET lo == BitAnd(word, 255)
        hi == word \div 256
        s1 == push_byte_to_stack(s, lo)
    IN IF s1.raised THEN s1 ELSE push_byte_to_stack(s1, hi)

\* Cpu._push_word_to_stack
push_word_to_stack(s, word) ==
    LET lo == BitAnd(word, 255)
        hi == word \div 256
        s1 == push_byte_to_stack(s, hi)
    IN IF s1.raised THEN s1 ELSE push_byte_to_stack(s1, lo)

\* Cpu._pop_word_from_stack
pop_word_from_stack(s, b1, b2) ==
    LET lo == pop_byte_from_stack(s, b1)
        hi == pop_byte_from_stack(lo.s, b2)
    IN IF lo.s.raised THEN lo
       ELSE [s |-> hi.s, v |-> BitAnd(BitOr(hi.v * 256, lo.v), 65535)]

\* Cpu._toggle_interrupts_enabled
toggle_interrupts_enabled(s) ==
    IF s.last_opcode = <<>> THEN s
    ELSE IF s.last_opcode = <<243>> /\ s.will_disable_interrupts
    THEN [s EXCEPT !.will_disable_interrupts = FALSE, !.interrupts_enabled = FALSE]
    ELSE IF s.last_opcode = <<251>> /\ s.will_enable_interrupts
    THEN [s EXCEPT !.will_enable_interrupts = FALSE, !.interrupts_enabled = TRUE]
    ELSE s

(***************************************************************************)
(* The instructions of the model.  code is the opcode; b1 and b2 are the   *)
(* bytes the instruction reads from cells outside the window (operands in  *)
(* ROM, stack cells the model does not keep).                              *)
(***************************************************************************)
\* Cpu._do_add_8_bit, opcode 0xC6 (ADD A, d8)
do_add_8_bit(s, b1) ==
    LET f == get_next_byte(s, b1)
        val_1 == s.af.hi
        res == val_1 + f.v
        s1 == update_zero_flag(f.s, BitAnd(res, 255) = 0)
        s2 == update_sub_flag(s1, FALSE)
        s3 == update_carry_flag(s2, res > 255)
        s4 == update_half_carry_flag(s3, BitAnd(val_1, 15) + BitAnd(f.v, 15) > 15)
    IN IF f.s.raised THEN f.s ELSE [s4 EXCEPT !.af.hi = BitAnd(res, 255)]

\* Cpu._do_add_16_bit, opcode 0xE8 (ADD SP, r8)
do_add_16_bit(s, b1) ==
    LET f == get_next_byte_signed(s, b1)
        sp == s.stack_pointer
        s1 == update_zero_flag(f.s, FALSE)
        s2 == update_sub_flag(s1, FALSE)
        s3 == update_carry_flag(s2, BitAnd(sp, 255) + BitAnd(f.v, 255) > 255)
        s4 == update_half_carry_flag(s3, BitAnd(sp, 15) + BitAnd(f.v, 15) > 15)
    IN IF f.s.raised THEN f.s
       ELSE [s4 EXCEPT !.stack_pointer = BitAnd(sp + f.v, 65535)]

\* Cpu._do_call, opcode 0xCD (CALL a16)
do_call(s, b1, b2) ==
    LET f == get_next_word(s, b1, b2)
        s1 == push_word_to_stack(f.s, f.s.program_counter)
    IN IF f.s.raised THEN f.s
       ELSE IF s1.raised THEN s1
       ELSE [s1 EXCEPT !.program_counter = f.v]

\* Cpu._do_compare, opcode 0xFE (CP d8)
do_compare(s, b1) ==
    LET f == get_next_byte(s, b1)
        val_1 == s.af.hi
        s1 == update_zero_flag(f.s, val_1 = f.v)
        s2 == update_sub_flag(s1, TRUE)
        s3 == update_carry_flag(s2, val_1 < f.v)
    IN IF f.s.raised THEN f.s
       ELSE update_half_carry_flag(s3, BitAnd(val_1, 15) - BitAnd(f.v, 15) < 0)

\* Cpu._do_complement (CPL)
do_complement(s) ==
    update_sub_flag(
        update_half_carry_flag([s EXCEPT !.af.hi = bit_negate(s.af.hi)], TRUE),
        TRUE)

\* Cpu._do_complement_carry (CCF)
do_complement_carry(s) ==
    update_sub_flag(
        update_half_carry_flag(
            update_carry_flag(s, ~is_carry_flag_set(s)), FALSE),
        FALSE)

\* Cpu._do_set_carry_flag (SCF)
do_set_carry_flag(s) ==
    update_carry_flag(
        update_sub_flag(update_half_carry_flag(s, FALSE), FALSE), TRUE)

\* Cpu._do_xor, opcode 0xAF (XOR A)
do_xor(s) ==
    LET s1 == [s EXCEPT !.af.hi = 0]
    IN update_carry_flag(
           update_sub_flag(
               update_half_carry_flag(update_zero_flag(s1, TRUE), FALSE),
               FALSE),
           FALSE)

\* Cpu._do_increment_16_bit, opcode 0x33 (INC SP)
do_increment_16_bit(s) ==
    [s EXCEPT !.stack_pointer = IF s.stack_pointer + 1 > 65535 THEN 0
                                ELSE s.stack_pointer + 1]

\* Cpu._do_decrement_16_bit, opcode 0x3B (DEC SP)
do_decrement_16_bit(s) ==
    [s EXCEPT !.stack_pointer = IF s.stack_pointer - 1 < 0 THEN 65535
                                ELSE s.stack_pointer - 1]

\* Cpu._do_disable_interrupts (DI)
do_disable_interrupts(s) == [s EXCEPT !.will_enable_interrupts = FALSE]

\* EI with the enable applied at once.
do_enable_interrupts_at_once(s) == [s EXCEPT !.interrupts_enabled = TRUE]

\* Cpu._do_enable_interrupts (EI)
do_enable_interrupts(s) == [s EXCEPT !.will_enable_interrupts = TRUE]

\* A HALT that enters HALT mode whatever IME is.
do_halt_always(s) == [s EXCEPT !.halted = TRUE]

\* Cpu._do_halt (HALT)
do_halt(s) == IF s.interrupts_enabled THEN [s EXCEPT !.halted = TRUE] ELSE s

\* Cpu._do_jump, opcodes 0xC3 (JP a16) and 0xE9 (JP (HL))
do_jump(s, code, b1, b2) ==
    IF code = 195
    THEN LET f == get_next_word(s, b1, b2)
         IN IF f.s.raised THEN f.s ELSE [f.s EXCEPT !.program_counter = f.v]
    ELSE [s EXCEPT !.program_counter = value(s.hl)]

\* Cpu._do_jump_relative, opcodes 0x18 (JR r8) and 0x20 (JR NZ, r8)
do_jump_relative(s, code, b1) ==
    IF code = 24 \/ ~is_zero_flag_set(s)
    THEN LET f == get_next_byte_signed(s, b1)
         IN IF f.s.raised THEN f.s
            ELSE [f.s EXCEPT !.program_counter = f.v + f.s.program_counter]
    ELSE [s EXCEPT !.program_counter = s.program_counter + 1]

\* Cpu._do_load, opcodes 0x01 (LD BC, d16), 0x31 (LD SP, d16),
\* 0x3E (LD A, d8), 0xEA (LD (a16), A), 0xF8 (LD HL, SP + r8) and
\* 0xF9 (LD SP, HL)
do_load(s, code, b1, b2) ==
    IF code = 1 \/ code = 49
    THEN LET f == get_next_word(s, b1, b2)
         IN IF f.s.raised THEN f.s
            ELSE IF code = 1 THEN [f.s EXCEPT !.bc = set_value(f.v)]
            ELSE [f.s EXCEPT !.stack_pointer = f.v]
    ELSE IF code = 62
    THEN LET f == get_next_byte(s, b1)
         IN IF f.s.raised THEN f.s ELSE [f.s EXCEPT !.af.hi = f.v]
    ELSE IF code = 234
    THEN LET f == get_next_word(s, b1, b2)
         IN IF f.s.raised THEN f.s ELSE write_memory(f.s, f.v, f.s.af.hi)
    ELSE IF code = 248
    THEN LET f == get_next_byte_signed(s, b1)
             sp == s.stack_pointer
             s1 == [f.s EXCEPT !.hl = set_value(sp + f.v)]
             s2 == update_zero_flag(s1, FALSE)
             s3 == update_sub_flag(s2, FALSE)
             s4 == update_carry_flag(s3, BitAnd(sp, 255) + BitAnd(f.v, 255) > 255)
         IN IF f.s.raised THEN f.s
            ELSE update_half_carry_flag(s4, BitAnd(sp, 15) + BitAnd(f.v, 15) > 15)
    ELSE [s EXCEPT !.stack_pointer = value(s.hl)]

\* Cpu._do_pop for 0xF1 with the flag register left as popped.
pop_af_unmasked(word) == set_value(word)

\* Cpu._do_pop, opcode 0xF1: af.value = word, then af.lo &= 0xF0
pop_af(word) ==
    LET p == set_value(word) IN [p EXCEPT !.lo = BitAnd(p.lo, 240)]

\* Cpu._do_pop, opcodes 0xC1 (POP BC) and 0xF1 (POP AF)
do_pop(s, code, b1, b2) ==
    LET f == pop_word_from_stack(s, b1, b2)
    IN IF f.s.raised THEN f.s
       ELSE IF code = 193 THEN [f.s EXCEPT !.bc = set_value(f.v)]
       ELSE [f.s EXCEPT !.af = pop_af(f.v)]

\* Cpu._do_push, opcodes 0xC5 (PUSH BC) and 0xF5 (PUSH AF)
do_push(s, code) ==
    IF code = 197 THEN push_word_to_stack(s, value(s.bc))
    ELSE push_word_to_stack(s, value(s.af))

\* Cpu._do_return, opcodes 0xC9 (RET) and 0xD9 (RETI)
do_return(s, code, b1, b2) ==
    LET f == pop_word_from_stack(s, b1, b2)
    IN IF f.s.raised THEN f.s
       ELSE IF code = 201 THEN [f.s EXCEPT !.program_counter = f.v]
       ELSE [f.s EXCEPT !.program_counter = f.v, !.interrupts_enabled = TRUE]

\* Cpu._do_restart, opcode 0xC7 (RST 00H)
do_restart(s) ==
    LET s1 == push_word_to_stack(s, s.program_counter)
    IN IF s1.raised THEN s1 ELSE [s1 EXCEPT !.program_counter = 0]

\* The opcodes of the model, by operation (src/src/ops.py).
OpsLoad == {1, 49, 62, 248, 249}
OpsPop == {193, 241}
OpsPush == {197, 245}
OpsJump == {195, 233}
OpsJumpRelative == {24, 32}
OpsReturn == {201, 217}
Opcodes ==
    {0, 198, 232, 205, 254, 47, 63, 55, 175, 51, 59, 243, 251, 118, 199}
        \cup OpsLoad \cup OpsPop \cup OpsPush \cup OpsJump
        \cup OpsJumpRelative \cup OpsReturn

\* The conditional opcodes of the opcode table, by operation and by condition:
\* JR, RET, JP and CALL on NZ, Z, NC and C.
OpsJumpRelativeCc == {32, 40, 48, 56}
OpsReturnCc == {192, 200, 208, 216}
OpsJumpCc == {194, 202, 210, 218}
OpsCallCc == {196, 204, 212, 220}
OpsConditional ==
    OpsJumpRelativeCc \cup OpsReturnCc \cup OpsJumpCc \cup OpsCallCc

\* The test a conditional handler makes on the flags of s before it branches
condition_holds(s, code) ==
    IF code \in {32, 192, 194, 196} THEN ~is_zero_flag_set(s)
    ELSE IF code \in {40, 200, 202, 204} THEN is_zero_flag_set(s)
    ELSE IF code \in {48, 208, 210, 212} THEN ~is_carry_flag_set(s)
    ELSE is_carry_flag_set(s)

\* Cpu._do_jump, _do_jump_relative, _do_call and _do_return for a conditional
\* opcode: the branch of the unconditional opcode when the condition holds,
\* the operand skipped when it does not.
do_conditional(s, code, b1, b2) ==
    IF code \in OpsJumpCc
    THEN IF condition_holds(s, code) THEN do_jump(s, 195, b1, b2)
         ELSE [s EXCEPT !.program_counter = s.program_counter + 2]
    ELSE IF code \in OpsJumpRelativeCc
    THEN IF condition_holds(s, code) THEN do_jump_relative(s, 24, b1)
         ELSE [s EXCEPT !.program_counter = s.program_counter + 1]
    ELSE IF code \in OpsCallCc
    THEN IF condition_holds(s, code) THEN do_call(s, b1, b2)
         ELSE [s EXCEPT !.program_counter = s.program_counter + 2]
    ELSE IF condition_holds(s, code) THEN do_return(s, 201, b1, b2)
         ELSE s

\* Cpu._do_bit, prefixed opcodes 0x46 (BIT 0, (HL)) and 0x7C (BIT 7, H)
do_bit(s, code, b) ==
    LET s1 == IF code = 70
              THEN update_zero_flag(
                       s, ~is_bit_set(read_memory(s, value(s.hl), b), 0))
              ELSE update_zero_flag(s, ~is_bit_set(s.hl.hi, 7))
    IN IF code = 70 /\ read_raises(s.mmu, value(s.hl)) THEN Raise(s)
       ELSE update_sub_flag(update_half_carry_flag(s1, TRUE), FALSE)

\* Cpu._do_rl with through_carry = True, prefixed opcodes 0x10 (RL B) and
\* 0x17 (RL A): the inner do_rl(val) and the store of its result
do_rl(s, code) ==
    LET val == IF code = 16 THEN s.bc.hi ELSE s.af.hi
        most_significant_bit == get_bit_val(val, 7)
        carry_bit == IF is_carry_flag_set(s) THEN 1 ELSE 0
        res == BitOr(val * 2, carry_bit)
        s1 == update_sub_flag(
                  update_half_carry_flag(
                      update_carry_flag(
                          update_zero_flag(s, BitAnd(res, 255) = 0),
                          most_significant_bit = 1),
                      FALSE),
                  FALSE)
    IN IF code = 16 THEN [s1 EXCEPT !.bc.hi = BitAnd(res, 255)]
       ELSE [s1 EXCEPT !.af.hi = BitAnd(res, 255)]

\* A rotate right that takes bit 7 from bit 0 and not from the carry flag
do_rr_circular(s, code) ==
    LET val == IF code = 24 THEN s.bc.hi ELSE s.af.hi
        least_significant_bit == get_bit_val(val, 0)
        res == BitOr(least_significant_bit * 128, val \div 2)
        s1 == update_sub_flag(
                  update_half_carry_flag(
                      update_carry_flag(
                          update_zero_flag(s, BitAnd(res, 255) = 0),
                          least_significant_bit = 1),
                      FALSE),
                  FALSE)
    IN IF code = 24 THEN [s1 EXCEPT !.bc.hi = BitAnd(res, 255)]
       ELSE [s1 EXCEPT !.af.hi = BitAnd(res, 255)]

\* Cpu._do_rr with through_carry = True, prefixed opcodes 0x18 (RR B) and
\* 0x1F (RR A)
do_rr(s, code) ==
    LET val == IF code = 24 THEN s.bc.hi ELSE s.af.hi
        least_significant_bit == get_bit_val(val, 0)
        carry_bit == IF is_carry_flag_set(s) THEN 1 ELSE 0
        res == BitOr(carry_bit * 128, val \div 2)
        s1 == update_sub_flag(
                  update_half_carry_flag(
                      update_carry_flag(
                          update_zero_flag(s, BitAnd(res, 255) = 0),
                          least_significant_bit = 1),
                      FALSE),
                  FALSE)
    IN IF code = 24 THEN [s1 EXCEPT !.bc.hi = BitAnd(res, 255)]
       ELSE [s1 EXCEPT !.af.hi = BitAnd(res, 255)]

\* Cpu._do_prefix: the prefixed opcode is read at the program counter
do_prefix(s, code, b) ==
    IF read_raises(s.mmu, s.program_counter) THEN Raise(s)
    ELSE LET s1 == [s EXCEPT !.program_counter = s.program_counter + 1]
         IN IF code \in {16, 23} THEN do_rl(s1, code)
            ELSE IF code \in {24, 31} THEN do_rr(s1, code)
            ELSE do_bit(s1, code, b)

\* The dispatch of Cpu.execute on opcode.operation
dispatch(s, code, b1, b2) ==
    IF code = 198 THEN do_add_8_bit(s, b1)
    ELSE IF code = 232 THEN do_add_16_bit(s, b1)
    ELSE IF code = 205 THEN do_call(s, b1, b2)
    ELSE IF code = 63 THEN do_complement_carry(s)
    ELSE IF code = 254 THEN do_compare(s, b1)
    ELSE IF code = 47 THEN do_complement(s)
    ELSE IF code = 59 THEN do_decrement_16_bit(s)
    ELSE IF code = 243 THEN do_disable_interrupts(s)
    ELSE IF code = 251 THEN do_enable_interrupts(s)
    ELSE IF code = 118 THEN do_halt(s)
    ELSE IF code = 51 THEN do_increment_16_bit(s)
    ELSE IF code \in OpsJump THEN do_jump(s, code, b1, b2)
    ELSE IF code \in OpsJumpRelative THEN do_jump_relative(s, code, b1)
    ELSE IF code \in OpsLoad \/ code = 234 THEN do_load(s, code, b1, b2)
    ELSE IF code \in OpsPop THEN do_pop(s, code, b1, b2)
    ELSE IF code \in OpsPush THEN do_push(s, code)
    ELSE IF code \in OpsReturn THEN do_return(s, code, b1, b2)
    ELSE IF code = 199 THEN do_restart(s)
    ELSE IF code = 55 THEN do_set_carry_flag(s)
    ELSE IF code = 175 THEN do_xor(s)
    ELSE IF code \in OpsConditional THEN do_conditional(s, code, b1, b2)
    ELSE IF code = 203 THEN do_prefix(s, b1, b2)
    ELSE s

\* The bytes that are no key of opcodes_map: 0xD3, 0xDB, 0xDD, 0xE3, 0xE4,
\* 0xEB, 0xEC, 0xED, 0xF4, 0xFC and 0xFD
UndefinedOpcodes == {211, 219, 221, 227, 228, 235, 236, 237, 244, 252, 253}

\* execute without the test of the halt flag: the instruction at PC runs.
execute_while_halted(s, code, b1, b2) ==
    IF read_raises(s.mmu, s.program_counter) THEN Raise(s)
    ELSE IF code \in UndefinedOpcodes THEN Raise(s)
    ELSE LET s1 == [s EXCEPT !.program_counter = s.program_counter + 1]
             s2 == dispatch(s1, code, b1, b2)
         IN IF s2.raised THEN s2
            ELSE [toggle_interrupts_enabled(s2) EXCEPT !.last_opcode = <<code>>]

\* Cpu.execute, when the byte at PC is the opcode code; opcodes_map[op] raises
\* KeyError for a byte that is no key, before PC is advanced.
execute(s, code, b1, b2) ==
    IF s.halted THEN s
    ELSE IF read_raises(s.mmu, s.program_counter) THEN Raise(s)
    ELSE IF code \in UndefinedOpcodes THEN Raise(s)
    ELSE LET s1 == [s EXCEPT !.program_counter = s.program_counter + 1]
             s2 == dispatch(s1, code, b1, b2)
         IN IF s2.raised THEN s2
            ELSE [toggle_interrupts_enabled(s2) EXCEPT !.last_opcode = <<code>>]

\* service_interrupt with the return address pushed low byte first
service_interrupt_low_first(s, interrupt) ==
    LET s1 == [s EXCEPT !.halted = FALSE, !.interrupts_enabled = FALSE]
        interrupts_requested ==
            reset_bit(read_memory(s1, INTERRUPT_FLAG_ADDR, 0), interrupt)
        s2 == write_memory(s1, INTERRUPT_FLAG_ADDR, interrupts_requested)
        s3 == push_byte_to_stack(s2, BitAnd(s2.program_counter, 255))
        s4 == IF s3.raised THEN s3
              ELSE push_byte_to_stack(s3, s2.program_counter \div 256)
    IN IF s4.raised THEN s4
       ELSE [s4 EXCEPT !.program_counter = 64 + 8 * interrupt]

\* Cpu.service_interrupt
service_interrupt(s, interrupt) ==
    LET s1 == [s EXCEPT !.halted = FALSE, !.interrupts_enabled = FALSE]
        interrupts_requested ==
            reset_bit(read_memory(s1, INTERRUPT_FLAG_ADDR, 0), interrupt)
        s2 == write_memory(s1, INTERRUPT_FLAG_ADDR, interrupts_requested)
        s3 == push_word_to_stack(s2, s2.program_counter)
    IN IF s3.raised THEN s3
       ELSE [s3 EXCEPT !.program_counter = 64 + 8 * interrupt]

(***************************************************************************)
(* The CPU run from reset on a ROM-only cartridge: instructions executed   *)
(* one after the other, and interrupts serviced between them.              *)
(***************************************************************************)
\* The number of CPU steps a run is followed for.
MaxSteps == 2

\* The bytes a step reads from cells outside the window: 0x00, 0x02 and
\* 0xFF (-1 as a signed offset).
InputBytes == {0, 2, 255}

\* The inputs an instruction reads: two bytes for a word operand or a popped
\* word, one byte for a byte operand, none otherwise.
Operands(code) ==
    IF code \in {1, 49, 195, 205} \cup OpsPop \cup OpsReturn
    THEN InputBytes \X InputBytes
    ELSE IF code \in {62, 248, 198, 232, 254, 24, 32}
    THEN InputBytes \X {0}
    ELSE {<<0, 0>>}

Execute ==
    /\ ~raised
    /\ steps < MaxSteps
    /\ \E code \in Opcodes : \E b \in Operands(code) :
         /\ \/ halted
            \/ read_raises(Mmu, program_counter)
            \/ read_memory(Cpu, program_counter, code) = code
         /\ SetCpu(execute(Cpu, code, b[1], b[2]))
    /\ steps' = steps + 1
    /\ op' = <<"execute">>
    /\ UNCHANGED <<timerVars, romVars, joypadVars, ppuVars, runVars>>

ServiceInterrupt ==
    /\ ~raised
    /\ steps < MaxSteps
    /\ \E interrupt \in {V_BLANK, LCD_STAT, TIMER, SERIAL, JOYPAD} :
         /\ SetCpu(service_interrupt(Cpu, interrupt))
         /\ op' = <<"service_interrupt", interrupt>>
    /\ steps' = steps + 1
    /\ UNCHANGED <<timerVars, romVars, joypadVars, ppuVars, runVars>>

InitCpuSpec ==
    /\ InitMmu
    /\ rom = [cartridge_type |-> 0, banks_code |-> 0]
    /\ InitPpu
    /\ InitCpu
    /\ InitTimers
    /\ InitJoypad
    /\ fed = 0
    /\ step_size = 0
    /\ op = <<"init">>

SpecCpu == InitCpuSpec /\ [][Execute \/ ServiceInterrupt]_vars

\* C4: PC and SP are both within 0x0000..0xFFFF in every state reached from
\* reset by executed instructions and interrupt services.
C4_PcSpInRange ==
    /\ program_counter \in 0..65535
    /\ stack_pointer \in 0..65535

\* C5: each 8-bit register half (A, F, B, C, D, E, H, L) is in 0..255 in
\* every state reached from reset by executed instructions.
C5_RegisterHalvesAreBytes ==
    \A p \in {af, bc, de, hl} : p.hi \in 0..255 /\ p.lo \in 0..255

\* C6: the low 4 bits of the flag register F are 0 in every state reached
\* from reset by executed instructions (POP AF and the flag updates included).
C6_FlagLowNibbleZero == BitAnd(af.lo, 15) = 0

\* C6 witness: PUSH BC has stored C = 0x13 on the stack and POP AF has popped
\* it, leaving F = 0x10.
C6_Witness ==
    /\ last_opcode = <<241>>
    /\ stack_pointer = STACK_POINTER_INIT
    /\ memory[65532] = 19
    /\ af.lo = 16
    /\ ~raised

(***************************************************************************)
(* The CPU run with the AF pair written through RegisterPair.value before  *)
(* the first instruction, as a host or a test harness sets up a scenario.  *)
(***************************************************************************)
\* The 16-bit values written to AF: 0x1234, 0xFFFF, 0x000F, 0x00F0, 0x0100.
AfValues == {4660, 65535, 15, 240, 256}

\* cpu.af.value = v
SetAf ==
    /\ ~raised
    /\ steps = 0
    /\ \E v \in AfValues :
         /\ af' = set_value(v)
         /\ op' = <<"af.value", v>>
    /\ UNCHANGED <<timerVars, mmuVars, romVars, joypadVars, ppuVars, runVars, program_counter,
                   stack_pointer, bc, de, hl, interrupts_enabled,
                   will_enable_interrupts, will_disable_interrupts, halted,
                   last_opcode, raised, steps>>

SpecAf == InitCpuSpec /\ [][SetAf \/ Execute]_vars

\* C7: a 16-bit value v written to AF reads back as v & 0xFFF0; with
\* SP = 0xFFFE and AF set to 0x1234, PUSH AF then POP BC leaves BC = 0x1230
\* and SP = 0xFFFE.
C7_AfWriteMasked ==
    /\ op[1] = "af.value" => value(af) = BitAnd(op[2], 65520)
    /\ ( /\ af = set_value(4660)
         /\ steps = 2
         /\ last_opcode = <<193>>
         /\ memory[65533] = 18 /\ memory[65532] = 52 )
       => (value(bc) = 4656 /\ stack_pointer = 65534)

(***************************************************************************)
(* The interrupt master enable (IME) under DI, EI, RETI, HALT and          *)
(* interrupt services: a longer CPU run over the instructions that read or *)
(* write Cpu.interrupts_enabled, with NOP and RET as the other             *)
(* instructions.                                                           *)
(***************************************************************************)
\* The number of CPU steps an IME run is followed for.
MaxImeSteps == 4

\* NOP, DI, EI, RETI, HALT and RET
ImeOpcodes == {0, 243, 251, 217, 118, 201}

ExecuteIme ==
    /\ ~raised
    /\ steps < MaxImeSteps
    /\ \E code \in ImeOpcodes : \E b \in Operands(code) :
         /\ \/ halted
            \/ read_raises(Mmu, program_counter)
            \/ read_memory(Cpu, program_counter, code) = code
         /\ SetCpu(execute(Cpu, code, b[1], b[2]))
    /\ steps' = steps + 1
    /\ op' = <<"execute">>
    /\ UNCHANGED <<timerVars, romVars, joypadVars, ppuVars, runVars>>

SpecIme == InitCpuSpec /\ [][ExecuteIme \/ ServiceInterrupt]_vars

\* The step is a call of Cpu.execute that ran an instruction to its end; the
\* instruction is last_opcode'.
InstructionCompleted ==
    op' = <<"execute">> /\ steps' = steps + 1 /\ ~halted /\ ~raised'

\* C12: after a DI executed with IME true, IME is still true; once the
\* instruction following DI has completed IME is false; and IME stays false
\* until an EI (plus one instruction) or a RETI.
C12_DiDelayedByOne ==
    [][InstructionCompleted =>
          /\ (interrupts_enabled /\ last_opcode # <<243>> /\ last_opcode' = <<243>>)
                => interrupts_enabled'
          /\ (last_opcode = <<243>>) => ~interrupts_enabled'
          /\ (~interrupts_enabled /\ last_opcode # <<251>> /\ last_opcode' # <<217>>)
                => ~interrupts_enabled']_vars

EiPending == last_opcode = <<251>> /\ will_enable_interrupts

op_cycles(code) ==
    IF code \in {0, 47, 55, 63, 175, 233, 243, 251} THEN 4
    ELSE IF code \in {51, 59, 62, 198, 249, 254} THEN 8
    ELSE IF code \in {1, 24, 49, 193, 241, 248} \cup OpsJumpRelativeCc THEN 12
    ELSE IF code \in {195, 197, 199, 201, 217, 232, 234, 245} \cup OpsJumpCc
    THEN 16
    ELSE IF code \in OpsReturnCc THEN 20
    ELSE IF code \in {205} \cup OpsCallCc THEN 24
    ELSE 0

\* OpCode.alt_cycles of the opcode table
op_alt_cycles(code) ==
    IF code \in OpsJumpRelativeCc \cup OpsReturnCc THEN 8
    ELSE IF code \in OpsJumpCc \cup OpsCallCc THEN 12
    ELSE op_cycles(code)

\* OpCode.cycles of the prefix table: 0x46 (BIT 0, (HL)), 0x7C (BIT 7, H)
\* and the rotates of a register
prefix_op_cycles(code) == IF code = 70 THEN 12 ELSE 8

\* execute_cycles without the alternate count
execute_cycles_base_only(s, code, b1) ==
    IF s.halted THEN 4
    ELSE IF code = 203 THEN op_cycles(code) + prefix_op_cycles(b1)
    ELSE op_cycles(code)

\* The cycle count Cpu.execute returns in state s when the opcode is code:
\* the count its handler returns, for PREFIX CB its own count plus the count
\* _do_prefix returns for the prefixed opcode b1
execute_cycles(s, code, b1) ==
    IF s.halted THEN 4
    ELSE IF code = 203 THEN op_cycles(code) + prefix_op_cycles(b1)
    ELSE IF code \in OpsConditional /\ ~condition_holds(s, code)
    THEN op_alt_cycles(code)
    ELSE op_cycles(code)

\* The number of iterations a frame-loop run is followed for.
MaxRunSteps == 5

\* NOP, HALT, EI, LD (a16), A and JR NZ, r8
RunOpcodes == {0, 118, 251, 234, 32}

\* The operands of a frame-loop run: LD (a16), A stores to IE (0xFFFF) and to
\* IF (0xFF0F).
RunOperands(code) ==
    IF code = 234 THEN {<<255, 255>>, <<15, 255>>} ELSE Operands(code)

RunIteration ==
    /\ ~raised
    /\ steps < MaxRunSteps
    /\ \E code \in RunOpcodes : \E b \in RunOperands(code) :
         /\ \/ halted
            \/ read_raises(Mmu, program_counter)
            \/ read_memory(Cpu, program_counter, code) = code
         /\ \E s \in {execute(Cpu, code, b[1], b[2])} :
              IF s.raised
              THEN SetCpu(s) /\ UNCHANGED scanline_counter
              ELSE \E g \in {update_graphics(s.mmu, scanline_counter,
                                              execute_cycles(Cpu, code, b[1]))} :
                       /\ SetCpu([s EXCEPT !.mmu = g.mmu])
                       /\ scanline_counter' = g.counter
         /\ op' = <<"run", code, b[1], b[2]>>
    /\ steps' = steps + 1
    /\ UNCHANGED <<timerVars, romVars, joypadVars, runVars>>

SpecRun == InitCpuSpec /\ [][RunIteration]_vars

\* C14: in every iteration of the frame loop in which execute returns c
\* cycles, the timers and the PPU are both advanced by c cycles, and then at
\* most one interrupt is serviced, only when IME is set and a source is both
\* requested and enabled.  (e is the CPU as execute leaves it, t the timers
\* and g the PPU after c cycles, and the program counter is the vector of the
\* pending source when one is serviced.)
C14_IterationAdvancesAll ==
    [][(op' # op /\ op'[1] = "run" /\ ~raised') =>
        LET c == execute_cycles(Cpu, op'[2], op'[3])
            e == execute(Cpu, op'[2], op'[3], op'[4])
            t == update_timers([mmu |-> e.mmu,
                                divider_counter |-> divider_counter,
                                timer_counter |-> timer_counter], c)
            g == update_graphics(t.mmu, scanline_counter, c)
            interrupt == get_servicable_interrupt(g.mmu)
        IN /\ divider_counter' = t.divider_counter
           /\ timer_counter' = t.timer_counter
           /\ scanline_counter' = g.counter
           /\ program_counter' =
                 IF e.interrupts_enabled /\ interrupt # <<>>
                 THEN service_interrupt([e EXCEPT !.mmu = g.mmu],
                                        interrupt[1]).program_counter
                 ELSE e.program_counter]_vars

\* C17: a halted CPU with a source set in both IF and IE is no longer halted
\* after the next iteration of the frame loop.
C17_HaltedWakesOnPending ==
    [][(/\ halted
        /\ get_servicable_interrupt(Mmu) # <<>>
        /\ steps' = steps + 1
        /\ op'[1] = "run") => ~halted']_vars

(***************************************************************************)
(* Cpu.service_interrupt called between instructions that set up the stack *)
(* pointer, the accumulator, IF and IE, and that halt the CPU.             *)
(***************************************************************************)
\* The number of steps a run with interrupt service is followed for.
MaxServiceSteps == 4

\* LD SP, d16; LD A, d8; LD (a16), A and HALT
ServiceOpcodes == {49, 62, 234, 118}

\* The operands of a run with interrupt service: SP is loaded with 0xFFFF or
\* 0x0002, A with 0x1F or 0x05, and A is stored to IE or IF.
ServiceOperands(code) ==
    IF code = 49 THEN {<<255, 255>>, <<2, 0>>}
    ELSE IF code = 62 THEN {<<31, 0>>, <<5, 0>>}
    ELSE RunOperands(code)

ExecuteService ==
    /\ ~raised
    /\ steps < MaxServiceSteps
    /\ \E code \in ServiceOpcodes : \E b \in ServiceOperands(code) :
         /\ \/ halted
            \/ read_raises(Mmu, program_counter)
            \/ read_memory(Cpu, program_counter, code) = code
         /\ SetCpu(execute(Cpu, code, b[1], b[2]))
    /\ steps' = steps + 1
    /\ op' = <<"execute">>
    /\ UNCHANGED <<timerVars, romVars, joypadVars, ppuVars, runVars>>

ServiceStep ==
    /\ ~raised
    /\ steps < MaxServiceSteps
    /\ \E interrupt \in {V_BLANK, LCD_STAT, TIMER, SERIAL, JOYPAD} :
         /\ SetCpu(service_interrupt(Cpu, interrupt))
         /\ op' = <<"service_interrupt", interrupt>>
    /\ steps' = steps + 1
    /\ UNCHANGED <<timerVars, romVars, joypadVars, ppuVars, runVars>>

SpecService == InitCpuSpec /\ [][ExecuteService \/ ServiceStep]_vars

\* The step is a call of service_interrupt
IsService == steps' = steps + 1 /\ op'[1] = "service_interrupt"

\* What service_interrupt does apart from the two stores of the push: halted
\* and IME cleared, bit s of IF cleared and its other bits kept, SP = q - 2,
\* PC = the vector of s.
ServicedRegisters ==
    LET s == op'[2]
        requested == memory[INTERRUPT_FLAG_ADDR]
    IN /\ ~halted'
       /\ ~interrupts_enabled'
       /\ memory'[INTERRUPT_FLAG_ADDR] =
             IF (requested \div Pow2(s)) % 2 = 1 THEN requested - Pow2(s)
             ELSE requested
       /\ stack_pointer' = stack_pointer - 2
       /\ program_counter' = 64 + 8 * s

\* The byte read back at addr after the step is data, for the cells the model
\* keeps
StoredAt(addr, data) ==
    (~IndexRaises(addr) /\ PyIndex(addr) \in MemAddrs)
        => read_byte(Mmu', addr) = data

\* addr is in work RAM (0xC000-0xDFFF) or high RAM (0xFF80-0xFFFE)
IsStackRam(addr) == addr \in 49152..57343 \/ addr \in 65408..65534

\* C15: servicing source s from any CPU state with PC = p and SP = q clears
\* halted and IME, clears exactly bit s of IF, leaves IE unchanged, stores the
\* high byte of p at q - 1 and the low byte at q - 2, sets SP = q - 2 and sets
\* PC to the vector of s.
C15_ServiceFromAnyState ==
    [][IsService =>
        /\ ~raised'
        /\ ServicedRegisters
        /\ memory'[INTERRUPT_ENABLE_ADDR] = memory[INTERRUPT_ENABLE_ADDR]
        /\ StoredAt(stack_pointer - 1, program_counter \div 256)
        /\ StoredAt(stack_pointer - 2, program_counter % 256)]_vars

\* C15 (amended): the same, for a stack pointer q with q - 1 and q - 2 both in
\* work RAM or high RAM.
C15_ServiceOnRamStack ==
    [][(IsService /\ IsStackRam(stack_pointer - 1)
                  /\ IsStackRam(stack_pointer - 2)) =>
        /\ ~raised'
        /\ ServicedRegisters
        /\ memory'[INTERRUPT_ENABLE_ADDR] = memory[INTERRUPT_ENABLE_ADDR]
        /\ StoredAt(stack_pointer - 1, program_counter \div 256)
        /\ StoredAt(stack_pointer - 2, program_counter % 256)]_vars

\* The timer source has been serviced with the CPU halted at 0x0106, SP at
\* reset and IF = 0x1F: IF is 0x1B, 0x0106 is on the stack and PC is 0x50.
C15_Witness ==
    /\ op = <<"service_interrupt", TIMER>>
    /\ steps = 4
    /\ ~halted /\ ~interrupts_enabled /\ ~raised
    /\ memory[INTERRUPT_FLAG_ADDR] = 27
    /\ stack_pointer = 65532
    /\ memory[65533] = 1 /\ memory[65532] = 6
    /\ program_counter = 80

(***************************************************************************)
(* The interrupt controller queried between stores to IF and IE.           *)
(***************************************************************************)
IrqStore ==
    /\ \E addr \in {INTERRUPT_FLAG_ADDR, INTERRUPT_ENABLE_ADDR} :
         \E data \in {0, 1, 4, 16, 18, 27, 30, 31, 224, 255} :
            /\ SetMmu(write_byte(Mmu, addr, data))
            /\ op' = <<"write_byte", addr, data>>
    /\ UNCHANGED <<timerVars, romVars, joypadVars, ppuVars, runVars, cpuVars>>

IrqQuery ==
    /\ op' = <<"get_servicable_interrupt", get_servicable_interrupt(Mmu)>>
    /\ UNCHANGED <<timerVars, mmuVars, romVars, joypadVars, ppuVars, runVars, cpuVars>>

SpecIrq == InitCpuSpec /\ [][IrqStore \/ IrqQuery]_vars

\* The lowest b in 0..4 with bit b set in both requested and enabled, <<>>
\* when there is none
LowestPending(requested, enabled) ==
    LET both == {b \in 0..4 : /\ (requested \div Pow2(b)) % 2 = 1
                              /\ (enabled \div Pow2(b)) % 2 = 1}
    IN IF both = {} THEN <<>>
       ELSE <<CHOOSE b \in both : \A c \in both : b <= c>>

\* C16: for every pair of IF and IE values the query returns the source with
\* the lowest bit index in 0..4 set in both IF and IE, returns none when
\* IF & IE & 0x1F is 0, and changes neither IF nor IE.
C16_LowestPendingReturned ==
    [][op'[1] = "get_servicable_interrupt" =>
        LET requested == memory[INTERRUPT_FLAG_ADDR]
            enabled == memory[INTERRUPT_ENABLE_ADDR]
        IN /\ op'[2] = LowestPending(requested, enabled)
           /\ (BitAnd(BitAnd(requested, enabled), 31) = 0) <=> (op'[2] = <<>>)
           /\ memory'[INTERRUPT_FLAG_ADDR] = requested
           /\ memory'[INTERRUPT_ENABLE_ADDR] = enabled]_vars

\* The query has returned LCD-STAT with IF = 0x12 and IE = 0x1E.
C16_Witness ==
    /\ op = <<"get_servicable_interrupt", <<LCD_STAT>>>>
    /\ memory[INTERRUPT_FLAG_ADDR] = 18
    /\ memory[INTERRUPT_ENABLE_ADDR] = 30

(***************************************************************************)
(* TimerControl driven on its own: the timer registers are stored while no *)
(* cycle has elapsed, then update_timers is given the cycles of one        *)
(* instruction after the other.                                            *)
(***************************************************************************)
\* The number of cycles the timers are followed for.
MaxTimerCycles == 2100

\* The timer is set up while no cycle has elapsed, by stores of TAC = 0x04
\* or 0x05, TIMA = 0xFE or 0xFF and TMA = 0x20.
TimerStore ==
    /\ fed = 0
    /\ \E w \in {<<TIMER_CONTROL_ADDR, 4>>, <<TIMER_CONTROL_ADDR, 5>>,
                <<TIMER_ADDR, 254>>, <<TIMER_ADDR, 255>>,
                <<TIMER_MODULATOR_ADDR, 32>>} :
         /\ SetMmu(write_byte(Mmu, w[1], w[2]))
         /\ op' = <<"write_byte", w[1], w[2]>>
    /\ UNCHANGED <<timerVars, romVars, joypadVars, ppuVars, runVars, cpuVars>>

TimerStep ==
    /\ \E cycles \in {4, 24} :
         /\ fed + cycles <= MaxTimerCycles
         /\ \E t \in {update_timers([mmu |-> Mmu,
                                      divider_counter |-> divider_counter,
                                      timer_counter |-> timer_counter],
                                     cycles)} :
              /\ SetMmu(t.mmu)
              /\ divider_counter' = t.divider_counter
              /\ timer_counter' = t.timer_counter
         /\ fed' = fed + cycles
         /\ op' = <<"update_timers", cycles>>
    /\ UNCHANGED <<romVars, joypadVars, ppuVars, step_size, cpuVars>>

SpecTimer == InitCpuSpec /\ [][TimerStore \/ TimerStep]_vars

\* C18: with TAC = 0x04, TIMA is incremented exactly once per 1024 elapsed
\* cycles (in the update in which the elapsed cycles pass a multiple of 1024,
\* and in no other), and when the increment wraps TIMA from 0xFF to 0x00 the
\* same update reloads TIMA from TMA and sets bit 2 of IF.
C18_TimaEvery1024Cycles ==
    [][(fed' > fed /\ memory[TIMER_CONTROL_ADDR] = 4) =>
        LET tick == (fed' \div 1024) > (fed \div 1024)
            wraps == tick /\ memory[TIMER_ADDR] = 255
        IN /\ memory'[TIMER_ADDR] =
                 IF wraps THEN memory[TIMER_MODULATOR_ADDR]
                 ELSE IF tick THEN memory[TIMER_ADDR] + 1
                 ELSE memory[TIMER_ADDR]
           /\ memory'[TIMER_MODULATOR_ADDR] = memory[TIMER_MODULATOR_ADDR]
           /\ memory'[INTERRUPT_FLAG_ADDR] =
                 IF wraps /\ (memory[INTERRUPT_FLAG_ADDR] \div 4) % 2 = 0
                 THEN memory[INTERRUPT_FLAG_ADDR] + 4
                 ELSE memory[INTERRUPT_FLAG_ADDR]]_vars

\* TAC = 0x04, TIMA was 0xFF and TMA 0x20: the update that completes 1024
\* cycles has left TIMA = 0x20 and bit 2 of IF set.
C18_Witness ==
    /\ op[1] = "update_timers"
    /\ fed = 1024
    /\ memory[TIMER_CONTROL_ADDR] = 4
    /\ memory[TIMER_MODULATOR_ADDR] = 32
    /\ memory[TIMER_ADDR] = 32
    /\ memory[INTERRUPT_FLAG_ADDR] = 4

\* C29: with the timer enabled, after every timer update the TIMA accumulator
\* is strictly less than the selected period, also when the cycles of one
\* instruction exceed the period.
C29_AccumulatorBelowPeriod ==
    [][(op'[1] = "update_timers" /\ is_timer_enabled(Mmu)) =>
        timer_counter' < get_timer_frequency(Mmu)]_vars

\* C30: with no store to DIV, after N cycles fed to the timers since power-on
\* DIV equals floor(N / 256) mod 256, however the cycles are split into steps.
C30_DivIsCyclesOver256 ==
    memory[DIVIDER_REGISTER_ADDR] = (fed \div CYCLES_PER_DIVIDER_INCREMENT) % 256

(***************************************************************************)
(* The cycle count Cpu.execute returns: conditional jumps, calls and       *)
(* returns, 0xCB-prefixed instructions and instructions that set the flags.*)
(***************************************************************************)
\* The number of instructions the cycle counts are followed for.
MaxCycleSteps == 2

\* The conditional opcodes, PREFIX CB, NOP, SCF, CCF, XOR A, JP, CALL, RET,
\* HALT, LD SP d16, POP BC and the undefined bytes 0xD3 and 0xFD
CycleOpcodes ==
    OpsConditional \cup {203, 0, 55, 63, 175, 195, 205, 201, 118, 49, 193, 211, 253}

\* The operands of a timed instruction: the prefixed opcode and the byte at
\* (HL) for PREFIX CB, a word or an offset for a branch.
CycleOperands(code) ==
    IF code = 203 THEN {<<70, 0>>, <<70, 1>>, <<124, 0>>}
    ELSE IF code \in OpsJumpRelativeCc THEN {<<2, 0>>, <<255, 0>>}
    ELSE IF code \in {0, 55, 63, 175, 118, 211, 253} THEN {<<0, 0>>}
    ELSE {<<0, 2>>, <<255, 255>>}

ExecuteTimed ==
    /\ ~raised
    /\ steps < MaxCycleSteps
    /\ \E code \in CycleOpcodes : \E b \in CycleOperands(code) :
         /\ \/ halted
            \/ read_raises(Mmu, program_counter)
            \/ read_memory(Cpu, program_counter, code) = code
         /\ SetCpu(execute(Cpu, code, b[1], b[2]))
         /\ op' = <<"execute", code, b[1], execute_cycles(Cpu, code, b[1])>>
    /\ steps' = steps + 1
    /\ UNCHANGED <<timerVars, romVars, joypadVars, ppuVars, runVars>>

SpecCycles == InitCpuSpec /\ [][ExecuteTimed]_vars

\* The condition named by a conditional opcode is false for the flag byte:
\* Z is bit 7 and C is bit 4.
ConditionFalse(code, flags) ==
    LET z == (flags \div 128) % 2 = 1
        c == (flags \div 16) % 2 = 1
    IN \/ code \in {32, 192, 194, 196} /\ z
       \/ code \in {40, 200, 202, 204} /\ ~z
       \/ code \in {48, 208, 210, 212} /\ c
       \/ code \in {56, 216, 218, 220} /\ ~c

\* C19: for an instruction with base count B and alternate count A, execute
\* returns A if and only if the instruction is a conditional JP, JR, CALL or
\* RET whose condition is false, and B in every other case; for a
\* 0xCB-prefixed instruction B is the count of the prefix table entry.
C19_CyclesBaseOrAlt ==
    [][(steps' = steps + 1 /\ op'[1] = "execute" /\ ~halted /\ ~raised') =>
        LET code == op'[2]
            B == IF code = 203 THEN prefix_op_cycles(op'[3])
                 ELSE op_cycles(code)
            A == IF code = 203 THEN B ELSE op_alt_cycles(code)
        IN /\ op'[4] \in {A, B}
           /\ op'[4] = IF ConditionFalse(code, af.lo) THEN A ELSE B
           /\ ConditionFalse(code, af.lo) => A # B]_vars

\* After a NOP, RET NC has returned its alternate count, 8, with the carry
\* flag set, and has left the program counter after itself.
C19_Witness ==
    /\ op = <<"execute", 208, 0, 8>>
    /\ steps = 2
    /\ (af.lo \div 16) % 2 = 1
    /\ program_counter = 258
    /\ ~raised

C23_FatalIffUndefined ==
    [][(steps' = steps + 1 /\ op'[1] = "execute" /\ ~halted) =>
        /\ raised' <=> op'[2] \in UndefinedOpcodes
        /\ raised' => UNCHANGED <<mmuVars, program_counter, stack_pointer,
                                  af, bc, de, hl, interrupts_enabled, halted>>]_vars

\* C33: a conditional JP, JR, CALL or RET whose condition is false leaves PC at
\* the next instruction (opcode address + 3 for JP and CALL, + 2 for JR, + 1
\* for RET) and leaves SP and memory unchanged; when the condition is true the
\* instruction completes with PC at its target, a 16-bit address (for JR the
\* opcode address + 2 + the signed offset), and a CALL leaves SP lowered by 2
\* with the opcode address + 3 stored there when the stack is in RAM.
C33_ConditionalBranches ==
    [][(/\ steps' = steps + 1 /\ op'[1] = "execute" /\ ~halted
        /\ op'[2] \in OpsConditional) =>
        LET code == op'[2]
            at == program_counter
            length == IF code \in OpsJumpRelativeCc THEN 2
                      ELSE IF code \in OpsReturnCc THEN 1 ELSE 3
            offset == IF op'[3] > 127 THEN op'[3] - 256 ELSE op'[3]
        IN IF ConditionFalse(code, af.lo)
           THEN /\ ~raised'
                /\ program_counter' = at + length
                /\ stack_pointer' = stack_pointer
                /\ memory' = memory
           ELSE /\ ~raised'
                /\ program_counter' \in 0..65535
                /\ code \in OpsJumpRelativeCc =>
                      program_counter' = (at + 2 + offset) % 65536
                /\ code \in OpsJumpCc \cup OpsCallCc =>
                      program_counter' % 256 = op'[3]
                /\ code \in OpsReturnCc => stack_pointer' = stack_pointer + 2
                /\ code \in OpsCallCc =>
                      /\ stack_pointer' = stack_pointer - 2
                      /\ (IsStackRam(stack_pointer - 1)
                             /\ IsStackRam(stack_pointer - 2)) =>
                            /\ StoredAt(stack_pointer - 1, (at + 3) \div 256)
                            /\ StoredAt(stack_pointer - 2, (at + 3) % 256)]_vars

(***************************************************************************)
(* A word pushed and popped again (Cpu._push_word_to_stack followed by     *)
(* Cpu._pop_word_from_stack) at the stack pointers a program sets with     *)
(* LD SP, d16.                                                             *)
(***************************************************************************)
\* The number of steps the stack is followed for.
MaxStackSteps == 4

\* The words pushed: 0x0000, 0x00FF, 0x1234, 0xFF00 and 0xFFFF
StackWords == {0, 255, 4660, 65280, 65535}

\* The operands of LD SP, d16: 0xFFFF (high RAM), 0xC002 (work RAM),
\* 0x0002 (cartridge ROM) and 0xFF06 (the timer registers)
StackPointers == {<<255, 255>>, <<2, 192>>, <<2, 0>>, <<6, 255>>}

LoadSp ==
    /\ ~raised
    /\ steps < MaxStackSteps
    /\ read_raises(Mmu, program_counter)
         \/ read_memory(Cpu, program_counter, 49) = 49
    /\ \E b \in StackPointers : SetCpu(execute(Cpu, 49, b[1], b[2]))
    /\ steps' = steps + 1
    /\ op' = <<"execute">>
    /\ UNCHANGED <<timerVars, romVars, joypadVars, ppuVars, runVars>>

PushPop ==
    /\ ~raised
    /\ steps < MaxStackSteps
    /\ \E x \in StackWords : \E b \in {0, 255} \X {0, 255} :
         \E pushed \in {push_word_to_stack(Cpu, x)} :
            IF pushed.raised
            THEN SetCpu(pushed) /\ op' = <<"push_pop", x, <<>>>>
            ELSE \E popped \in {pop_word_from_stack(pushed, b[1], b[2])} :
                    /\ SetCpu(popped.s)
                    /\ op' = <<"push_pop", x, popped.v>>
    /\ steps' = steps + 1
    /\ UNCHANGED <<timerVars, romVars, joypadVars, ppuVars, runVars>>

SpecStack == InitCpuSpec /\ [][LoadSp \/ PushPop]_vars

\* C20: for every 16-bit x and every stack pointer the program can reach,
\* pushing x and then popping a word returns x and leaves SP as it was before
\* the push.
C20_PushPopRoundTrip ==
    [][(steps' = steps + 1 /\ op'[1] = "push_pop") =>
        /\ ~raised'
        /\ op'[3] = op'[2]
        /\ stack_pointer' = stack_pointer]_vars

\* C20 (amended): the same, for a stack pointer q with q - 1 and q - 2 both in
\* work RAM or high RAM.
C20_PushPopRoundTripInRam ==
    [][(/\ steps' = steps + 1
        /\ op'[1] = "push_pop"
        /\ IsStackRam(stack_pointer - 1)
        /\ IsStackRam(stack_pointer - 2)) =>
        /\ ~raised'
        /\ op'[3] = op'[2]
        /\ stack_pointer' = stack_pointer]_vars

\* 0x1234 has been pushed and popped with SP = 0xC002: the word came back,
\* its bytes are at 0xC001 and 0xC000, and SP is 0xC002 again.
C20_Witness ==
    /\ op = <<"push_pop", 4660, 4660>>
    /\ stack_pointer = 49154
    /\ memory[49153] = 18
    /\ memory[49152] = 52
    /\ ~raised

(***************************************************************************)
(* The PPU with a program that stores to LCDC, STAT and LYC between PPU    *)
(* steps: the LCD-off branch and the LY = LYC comparison of                *)
(* update_lcd_status.                                                      *)
(***************************************************************************)
\* The number of cycles the PPU is followed for (two scanlines and a little).
MaxLcdCycles == 960

\* Stores of LCDC = 0x11 (LCD off) or 0x91 (LCD on), STAT = 0x02 or 0x28 and
\* LYC = 1.
LcdStore ==
    /\ \E w \in {<<LCD_CONTROL_ADDR, 17>>, <<LCD_CONTROL_ADDR, 145>>,
                <<LCD_STATUS_ADDR, 2>>, <<LCD_STATUS_ADDR, 40>>,
                <<CURRENT_SCANLINE_COMPARE_ADDR, 1>>} :
         /\ SetMmu(write_byte(Mmu, w[1], w[2]))
         /\ op' = <<"write_byte", w[1], w[2]>>
    /\ UNCHANGED <<timerVars, romVars, joypadVars, ppuVars, runVars, cpuVars>>

LcdStep ==
    /\ \E cycles \in {12, 24} :
         /\ fed + cycles <= MaxLcdCycles
         /\ \E g \in {update_graphics(Mmu, scanline_counter, cycles)} :
              /\ SetMmu(g.mmu)
              /\ scanline_counter' = g.counter
         /\ fed' = fed + cycles
         /\ op' = <<"update_graphics", cycles>>
    /\ UNCHANGED <<timerVars, romVars, joypadVars, step_size, cpuVars>>

SpecLcd == InitCpuSpec /\ [][LcdStore \/ LcdStep]_vars

\* C27: whenever a PPU step runs with LCDC bit 7 clear, at its end LY is 0,
\* the scanline budget is 456, both gates are open, STAT bits 1-0 read 01, and
\* the step has not requested a VBlank interrupt, whatever its cycles.
C27_LcdOffStep ==
    [][(fed' > fed /\ ~is_lcd_enabled(Mmu)) =>
        /\ memory'[CURRENT_SCANLINE_ADDR] = 0
        /\ scanline_counter' = CYCLES_PER_SCANLINE
        /\ oam_access' /\ vram_access'
        /\ memory'[LCD_STATUS_ADDR] % 4 = MODE_V_BLANK
        /\ memory'[INTERRUPT_FLAG_ADDR] % 2 = memory[INTERRUPT_FLAG_ADDR] % 2]_vars

MaxIoTicks == 2

\* The first and the last address of the ECHO range 0xE000-0xFDFF.
EchoAddrs == {57344, 65023}

\* write_byte(addr, data) to DIV, LY, the ECHO range, the unusable range, the
\* RAM-enable cell 0x0000 and the work-RAM cell 0xC000 that 0xE000 mirrors,
\* with the data bytes 0x00, 0x0A (the RAM-enable nibble) and 0xA5; op keeps
\* the byte the cell held before.
IoWrite ==
    /\ \E addr \in {DIVIDER_REGISTER_ADDR, CURRENT_SCANLINE_ADDR, 0, 49152}
                      \cup EchoAddrs \cup UnusableAddrs,
          data \in {0, 10, 165} :
         /\ SetMmu(write_byte(Mmu, addr, data))
         /\ op' = <<"write_byte", addr, data, memory[addr]>>
    /\ UNCHANGED <<timerVars, romVars, joypadVars, ppuVars, runVars, cpuVars>>

\* Mmu.increment_divider_register, called by the timers, and
\* Mmu.update_scanline, called by the PPU.
IoTick ==
    /\ \/ /\ memory[DIVIDER_REGISTER_ADDR] < MaxIoTicks
          /\ SetMmu(increment_divider_register(Mmu))
       \/ /\ memory[CURRENT_SCANLINE_ADDR] < MaxIoTicks
          /\ SetMmu(update_scanline(Mmu))
    /\ op' = <<"tick">>
    /\ UNCHANGED <<timerVars, romVars, joypadVars, ppuVars, runVars, cpuVars>>

SpecIo == InitMmuSpec /\ [][IoWrite \/ IoTick]_vars

\* C24: write_byte(0xFF04, D) leaves DIV = 0 and write_byte(0xFF44, D) leaves
\* LY = 0, for every D and every previous value, and changes no other cell.
C24_DivLyStoreResets ==
    [][(/\ op'[1] = "write_byte"
        /\ op'[2] \in {DIVIDER_REGISTER_ADDR, CURRENT_SCANLINE_ADDR}) =>
        memory' = [memory EXCEPT ![op'[2]] = 0]]_vars

\* 0xA5 has been stored to DIV while DIV held 2 and LY held 1: DIV is 0 and
\* LY is still 1.
C24_Witness ==
    /\ op = <<"write_byte", DIVIDER_REGISTER_ADDR, 165, 2>>
    /\ memory[DIVIDER_REGISTER_ADDR] = 0
    /\ memory[CURRENT_SCANLINE_ADDR] = 1

reset_keeps_pending(s) ==
    [s EXCEPT !.program_counter = PROGRAM_COUNTER_INIT,
              !.stack_pointer = STACK_POINTER_INIT,
              !.af = set_value(432),
              !.bc = set_value(19),
              !.de = set_value(216),
              !.hl = set_value(333),
              !.halted = FALSE,
              !.will_disable_interrupts = FALSE,
              !.interrupts_enabled = TRUE]

\* Cpu.reset
reset(s) ==
    [s EXCEPT !.program_counter = PROGRAM_COUNTER_INIT,
              !.stack_pointer = STACK_POINTER_INIT,
              !.af = set_value(432),
              !.bc = set_value(19),
              !.de = set_value(216),
              !.hl = set_value(333),
              !.halted = FALSE,
              !.will_enable_interrupts = FALSE,
              !.will_disable_interrupts = FALSE,
              !.interrupts_enabled = TRUE]

\* cpu.reset(); op keeps whether an EI was pending, IME and the halt flag as
\* they were before.
ResetCpu ==
    /\ ~raised
    /\ SetCpu(reset(Cpu))
    /\ op' = <<"reset", will_enable_interrupts, interrupts_enabled, halted>>
    /\ UNCHANGED <<steps, timerVars, romVars, joypadVars, ppuVars, runVars>>

SpecReset == InitCpuSpec /\ [][Execute \/ ServiceInterrupt \/ ResetCpu]_vars

\* C22: Cpu.reset, in any CPU state, yields PC = 0x0100, SP = 0xFFFE,
\* AF = 0x01B0, BC = 0x0013, DE = 0x00D8, HL = 0x014D, IME true, halted false
\* and no deferred IME change pending; the instruction executed next, if it
\* is neither EI nor DI, leaves IME true.
C22_ResetState ==
    [][/\ op'[1] = "reset" =>
            /\ program_counter' = 256
            /\ stack_pointer' = 65534
            /\ value(af') = 432
            /\ value(bc') = 19
            /\ value(de') = 216
            /\ value(hl') = 333
            /\ interrupts_enabled'
            /\ ~halted'
            /\ ~will_enable_interrupts'
            /\ ~will_disable_interrupts'
       /\ (/\ op[1] = "reset"
           /\ op' = <<"execute">>
           /\ last_opcode' \notin {<<243>>, <<251>>}) => interrupts_enabled']_vars

\* The reset came right after an EI executed with IME false (the enable
\* still pending, the last opcode showing the EI): IME is true and nothing is
\* pending.
C22_Witness ==
    /\ op = <<"reset", TRUE, FALSE, FALSE>>
    /\ last_opcode = <<251>>
    /\ program_counter = 256
    /\ interrupts_enabled
    /\ ~will_enable_interrupts

(***************************************************************************)
(* The VRAM and OAM access gates: the PPU closes and opens them, and bytes *)
(* are read and written at the ends of the two ranges and next to them.    *)
(***************************************************************************)
\* The first and the last address of VRAM (0x8000-0x9FFF) and of OAM
\* (0xFE00-0xFE9F), and the addresses next to them: 0x7FFF, 0xA000, 0xFDFF
\* and 0xFEA0.
GateAddrs == {32767, 32768, 40959, 40960, 65023, 65024, 65183, 65184}

\* restrict_oam_access, open_oam_access, restrict_vram_access or
\* open_vram_access
GateSet ==
    /\ \E m \in {restrict_oam_access(Mmu), open_oam_access(Mmu),
                  restrict_vram_access(Mmu), open_vram_access(Mmu)} : SetMmu(m)
    /\ op' = <<"gate">>
    /\ UNCHANGED <<timerVars, romVars, joypadVars, ppuVars, runVars, cpuVars>>

\* write_byte(addr, data) with the data 0xA5 and 0x1A5
GateWrite ==
    /\ \E addr \in GateAddrs, data \in {165, 421} :
         /\ SetMmu(write_byte(Mmu, addr, data))
         /\ op' = <<"write_byte", addr, data>>
    /\ UNCHANGED <<timerVars, romVars, joypadVars, ppuVars, runVars, cpuVars>>

\* read_byte(addr); op keeps the byte returned.
GateRead ==
    /\ \E addr \in GateAddrs :
         op' = <<"read_byte", addr, read_byte(Mmu, addr)>>
    /\ UNCHANGED <<mmuVars, timerVars, romVars, joypadVars, ppuVars, runVars, cpuVars>>

SpecGate == InitCpuSpec /\ [][GateSet \/ GateWrite \/ GateRead]_vars

\* C31: while the VRAM gate is closed a read of 0x8000-0x9FFF returns 0xFF
\* and a write there leaves memory unchanged, and likewise for the OAM gate
\* and 0xFE00-0xFE9F; while a gate is open a read of its range returns the
\* stored byte and a write stores data & 0xFF; at an address outside both
\* ranges a read or a write does what it does with both gates open.
C31_GatesGuardTheirRange ==
    [][LET a == op'[2]
           in_vram == a >= 32768 /\ a <= 40959
           in_oam == a >= 65024 /\ a <= 65183
           closed == (in_vram /\ ~vram_access) \/ (in_oam /\ ~oam_access)
           opened == [Mmu EXCEPT !.oam_access = TRUE, !.vram_access = TRUE]
       IN /\ op'[1] = "read_byte" =>
               op'[3] = IF closed THEN 255
                        ELSE IF in_vram \/ in_oam THEN memory[a]
                        ELSE read_byte(opened, a)
          /\ op'[1] = "write_byte" =>
               /\ memory' = IF closed THEN memory
                            ELSE IF in_vram \/ in_oam
                            THEN [memory EXCEPT ![a] = op'[3] % 256]
                            ELSE write_byte(opened, a, op'[3]).memory
               /\ oam_access' = oam_access /\ vram_access' = vram_access]_vars

\* 0x8000 holds 0xA5, the VRAM gate is closed and the OAM gate open: the read
\* of 0x8000 has returned 0xFF.
C31_Witness ==
    /\ op = <<"read_byte", 32768, 255>>
    /\ ~vram_access /\ oam_access
    /\ memory[32768] = 165

(***************************************************************************)
(* Rotates through the carry flag: a register is loaded, the carry flag is *)
(* set or complemented, and RL and RR are executed on the register.        *)
(***************************************************************************)
\* The number of instructions a rotate run is followed for.
MaxRotateSteps == 4

\* LD BC d16, LD A d8, SCF, CCF and PREFIX CB
RotateOpcodes == {1, 62, 55, 63, 203}

\* The operands: every byte for LD A; 0x00, 0x81 and 0xFF as the high byte of
\* LD BC; RL B, RL A, RR B and RR A after the prefix.
RotateOperands(code) ==
    IF code = 62 THEN (0..255) \X {0}
    ELSE IF code = 1 THEN {0} \X {0, 129, 255}
    ELSE IF code = 203 THEN {16, 23, 24, 31} \X {0}
    ELSE {<<0, 0>>}

\* Cpu.execute on a program that starts with the load; for a rotate op keeps
\* the register and the carry flag as they were before it.
ExecuteRotate ==
    /\ ~raised
    /\ steps < MaxRotateSteps
    /\ \E code \in RotateOpcodes : \E b \in RotateOperands(code) :
         /\ code \in {1, 62} => steps = 0
         /\ read_memory(Cpu, program_counter, code) = code
         /\ SetCpu(execute(Cpu, code, b[1], b[2]))
         /\ op' = IF code = 203
                  THEN <<"execute", code, b[1],
                         IF b[1] \in {16, 24} THEN bc.hi ELSE af.hi,
                         get_bit_val(af.lo, CARRY)>>
                  ELSE <<"execute", code, b[1]>>
    /\ steps' = steps + 1
    /\ UNCHANGED <<timerVars, romVars, joypadVars, ppuVars, runVars>>

SpecRotate == InitCpuSpec /\ [][ExecuteRotate]_vars

\* C34: RL on a register holding the byte v with the carry flag c, followed
\* by RR on the same register, leaves v in the register and c in the carry
\* flag.
C34_RlThenRrIsIdentity ==
    [][(/\ op[1] = "execute" /\ op[2] = 203 /\ op[3] \in {16, 23}
        /\ op'[1] = "execute" /\ op'[2] = 203 /\ op'[3] = op[3] + 8
        /\ steps' = steps + 1) =>
        /\ ~raised'
        /\ (IF op[3] = 16 THEN bc'.hi ELSE af'.hi) = op[4]
        /\ get_bit_val(af'.lo, CARRY) = op[5]]_vars

\* A held 0x81 with the carry flag clear; RL A left 0x02 with the carry flag
\* set, and RR A has restored 0x81 with the carry flag clear.
C34_Witness ==
    /\ op = <<"execute", 203, 31, 2, 1>>
    /\ steps = 4
    /\ af.hi = 129
    /\ get_bit_val(af.lo, CARRY) = 0
    /\ last_opcode = <<203>>

\* ---------------------------------------------------------------------------
\* The joypad
\* ---------------------------------------------------------------------------

RIGHT == 0
LEFT == 1
DOWN == 2
UP == 3
A == 4
B == 5
START == 6
SELECT == 7

MODE_ACTION == 0
MODE_DIRECTION == 1

\* A nibble whose bits follow the values of the enum Button within each
\* group, in place of the order the register gives the buttons.
get_buttons_in_enum_order(st, mode) ==
    IF mode = MODE_DIRECTION
    THEN st[UP] * 8 + st[DOWN] * 4 + st[LEFT] * 2 + st[RIGHT]
    ELSE IF mode = MODE_ACTION
    THEN st[SELECT] * 8 + st[START] * 4 + st[B] * 2 + st[A]
    ELSE 15

\* Joypad.get_buttons_for_mode: the shifted states have no bit in common, so
\* the bitwise or of them is their sum.
get_buttons_for_mode(st, mode) ==
    IF mode = MODE_DIRECTION
    THEN LET down == st[DOWN]
             up == st[UP]
             left == st[LEFT]
             right == st[RIGHT]
         IN  down * 8 + up * 4 + left * 2 + right
    ELSE IF mode = MODE_ACTION
    THEN LET start == st[START]
             select == st[SELECT]
             b == st[B]
             a == st[A]
         IN  start * 8 + select * 4 + b * 2 + a
    ELSE 15

\* Joypad.set_button_state
SetButtonState ==
    \E button \in Buttons :
        /\ state' = [state EXCEPT ![button] = 0]
        /\ op' = <<"set_button_state", button>>
        /\ UNCHANGED <<mmuVars, romVars, ppuVars, runVars, cpuVars, timerVars>>

\* Joypad.reset_button_state
ResetButtonState ==
    \E button \in Buttons :
        /\ state' = [state EXCEPT ![button] = 1]
        /\ op' = <<"reset_button_state", button>>
        /\ UNCHANGED <<mmuVars, romVars, ppuVars, runVars, cpuVars, timerVars>>

SpecJoypad == InitCpuSpec /\ [][SetButtonState \/ ResetButtonState]_vars

\* The set of buttons whose last call was a press: state holds 0 for them.
Pressed == {button \in Buttons : state[button] = 0}

\* C35: after any sequence of presses and releases, bits 0..3 of the
\* direction nibble are 0 exactly when Right, Left, Up, Down are pressed and
\* bits 0..3 of the action nibble are 0 exactly when A, B, Select, Start are
\* pressed; with nothing pressed both nibbles are 0xF; a press or a release
\* of a button of one group leaves the nibble of the other group as it was.
C35_NibblesFollowButtons ==
    /\ [](/\ \A i \in 0..3 :
               /\ get_bit_val(get_buttons_for_mode(state, MODE_DIRECTION), i) = 0
                      <=> <<RIGHT, LEFT, UP, DOWN>>[i + 1] \in Pressed
               /\ get_bit_val(get_buttons_for_mode(state, MODE_ACTION), i) = 0
                      <=> <<A, B, SELECT, START>>[i + 1] \in Pressed
          /\ get_buttons_for_mode(state, MODE_DIRECTION) \in 0..15
          /\ get_buttons_for_mode(state, MODE_ACTION) \in 0..15
          /\ Pressed = {} =>
               /\ get_buttons_for_mode(state, MODE_DIRECTION) = 15
               /\ get_buttons_for_mode(state, MODE_ACTION) = 15)
    /\ [][/\ op'[2] \in {RIGHT, LEFT, UP, DOWN} =>
               get_buttons_for_mode(state', MODE_ACTION)
                   = get_buttons_for_mode(state, MODE_ACTION)
          /\ op'[2] \in {A, B, SELECT, START} =>
               get_buttons_for_mode(state', MODE_DIRECTION)
                   = get_buttons_for_mode(state, MODE_DIRECTION)]_vars

\* Up and A are held after Left was pressed and released: the direction
\* nibble is 0xB and the action nibble is 0xE.
C35_Witness ==
    /\ op = <<"reset_button_state", LEFT>>
    /\ Pressed = {UP, A}
    /\ get_buttons_for_mode(state, MODE_DIRECTION) = 11
    /\ get_buttons_for_mode(state, MODE_ACTION) = 14

\* ---------------------------------------------------------------------------
\* The tile data address of a background tile
\* ---------------------------------------------------------------------------

\* LcdControl.get_background_tile_data_area
get_background_tile_data_area(m) ==
    IF is_bit_set(read_byte(m, LCD_CONTROL_ADDR), 4) THEN 32768 ELSE 36864

\* LcdControl.is_background_tile_data_addressing_signed
is_background_tile_data_addressing_signed(m) ==
    ~is_bit_set(read_byte(m, LCD_CONTROL_ADDR), 4)

\* Ppu.get_background_tile_pixels, the identifier it hands to
\* _get_tile_line_pixel for the byte tile_identifier read from the tile map:
\* 256 is taken off every identifier when the addressing is signed.
signed_tile_identifier(m, tile_identifier) ==
    IF is_background_tile_data_addressing_signed(m)
    THEN tile_identifier - 256
    ELSE tile_identifier

\* Ppu._get_tile_line_pixel, the value of its local addr
tile_data_addr(m, tile_identifier) ==
    get_background_tile_data_area(m) + (tile_identifier * 16)

\* Stores of LCDC = 0x81 (bit 4 clear) or 0x91 (bit 4 set).
TileStore ==
    /\ \E data \in {129, 145} :
         /\ SetMmu(write_byte(Mmu, LCD_CONTROL_ADDR, data))
         /\ op' = <<"write_byte", LCD_CONTROL_ADDR, data>>
    /\ UNCHANGED <<timerVars, romVars, joypadVars, ppuVars, runVars, cpuVars>>

\* The rasterizer looks up the tile whose identifier in the tile map is t; op
\* keeps t, the value of LCDC bit 4 and the address of the tile's data.
TileLookup ==
    /\ \E t \in 0..255 :
         op' = <<"tile", t, get_bit_val(read_byte(Mmu, LCD_CONTROL_ADDR), 4),
                 tile_data_addr(Mmu, signed_tile_identifier(Mmu, t))>>
    /\ UNCHANGED <<mmuVars, timerVars, romVars, joypadVars, ppuVars, runVars,
                   cpuVars>>

SpecTile == InitCpuSpec /\ [][TileStore \/ TileLookup]_vars

\* C36: for every tile id t in 0..255 the tile data address is 0x8000 + 16*t
\* when LCDC bit 4 is set; when it is clear the address is 0x9000 + 16*t for
\* t < 128 and 0x9000 + 16*(t - 256) for t >= 128, so that it lies in
\* 0x8800..0x97FF.
C36_TileDataAddress ==
    op[1] = "tile" =>
        IF op[3] = 1
        THEN op[4] = 32768 + 16 * op[2]
        ELSE /\ op[4] = (IF op[2] < 128 THEN 36864 + 16 * op[2]
                         ELSE 36864 + 16 * (op[2] - 256))
             /\ op[4] \in 34816..38911

\* ---------------------------------------------------------------------------
\* HALT mode and IME
\* ---------------------------------------------------------------------------

\* C37: in every reachable state halted implies IME; a step that sets halted
\* starts with IME true, no step clears IME and leaves the CPU halted, and an
\* interrupt service ends with halted and IME both false.
C37_HaltedImpliesIme ==
    /\ [](halted => interrupts_enabled)
    /\ [][/\ (~halted /\ halted') => interrupts_enabled
          /\ (halted /\ halted') => interrupts_enabled'
          /\ (op'[1] = "service_interrupt" /\ steps' = steps + 1)
                => (~halted' /\ ~interrupts_enabled')]_vars

\* The V_BLANK interrupt was serviced, EI and one more instruction turned IME
\* back on at 0x0040 and 0x0041, and the HALT at 0x0042 has halted the CPU.
C37_Witness ==
    /\ halted
    /\ interrupts_enabled
    /\ last_opcode = <<118>>
    /\ program_counter = 67
    /\ stack_pointer = STACK_POINTER_INIT - 2
    /\ steps = 4

\* C38: once an interrupt service has cleared IME, an instruction turns IME
\* back on only if it is a RETI or if the instruction before it was an EI
\* executed after that service; an EI executed before the service does not
\* count.  In SpecIme IME is false only after a service, and op still names
\* the service when the first instruction of the handler starts.
C38_ImeOffUntilEiOrReti ==
    [][(InstructionCompleted /\ ~interrupts_enabled /\ interrupts_enabled') =>
          \/ last_opcode' = <<217>>
          \/ last_opcode = <<251>> /\ op[1] # "service_interrupt"]_vars

\* ---------------------------------------------------------------------------
\* V_BLANK requests per frame
\* ---------------------------------------------------------------------------

\* The number of wraps of LY a frame run is followed for.
MaxWraps == 2

\* Ppu.update_graphics(cycles) called on the MMU m calls
\* request_interrupt(V_BLANK): the call shows as bit 0 of IF when the step is
\* run with that bit cleared beforehand.
requests_vblank(m, counter, cycles) ==
    LET requested == read_byte(m, INTERRUPT_FLAG_ADDR)
        m0 == [m EXCEPT !.memory[INTERRUPT_FLAG_ADDR] = reset_bit(requested, V_BLANK)]
    IN is_interrupt_requested(update_graphics(m0, counter, cycles).mmu, V_BLANK)

\* One iteration of the frame loop after its instruction: update_graphics
\* with the cycle count of the instruction.  op keeps the number of steps so
\* far that have set LY back to 0 and the number of steps so far that have
\* requested V_BLANK.
FrameStep ==
    /\ \E cycles \in InstructionCycles :
       \E g \in {update_graphics(Mmu, scanline_counter, cycles)} :
         LET wraps == IF op[1] = "update_graphics" THEN op[2] ELSE 0
             requests == IF op[1] = "update_graphics" THEN op[3] ELSE 0
             wrapped == /\ read_byte(Mmu, CURRENT_SCANLINE_ADDR) # 0
                        /\ read_byte(g.mmu, CURRENT_SCANLINE_ADDR) = 0
         IN /\ wraps < MaxWraps
            /\ SetMmu(g.mmu)
            /\ scanline_counter' = g.counter
            /\ op' = <<"update_graphics",
                       IF wrapped THEN wraps + 1 ELSE wraps,
                       IF requests_vblank(Mmu, scanline_counter, cycles)
                       THEN requests + 1 ELSE requests>>
    /\ UNCHANGED <<timerVars, romVars, joypadVars, runVars, cpuVars>>

\* The handler acknowledges V_BLANK as service_interrupt does: it stores IF
\* with bit 0 cleared.
FrameAcknowledge ==
    /\ op[1] = "update_graphics"
    /\ is_interrupt_requested(Mmu, V_BLANK)
    /\ SetMmu(write_byte(Mmu, INTERRUPT_FLAG_ADDR,
                         reset_bit(read_byte(Mmu, INTERRUPT_FLAG_ADDR), V_BLANK)))
    /\ UNCHANGED <<op, timerVars, romVars, joypadVars, ppuVars, runVars, cpuVars>>

SpecFrame == InitCpuSpec /\ [][FrameStep \/ FrameAcknowledge]_vars

C40_ExecuteReturnsPositive ==
    (op[1] = "execute" /\ ~raised) => op[4] > 0

====
